---------------------------- MODULE Spec2Model ----------------------------
(***************************************************************************)
(* A model of the write path of scrapbox_mcp:                              *)
(*   internal/scrapbox/websocket.go  createLineId, diffToChanges, the      *)
(*   WebSocketClient (Connect, messageHandler, PatchPage, CreatePage);     *)
(*   internal/mcp/session.go, transport.go  the SessionManager and the     *)
(*   POST and DELETE handlers of /mcp.                                     *)
(*                                                                         *)
(* Specifications:                                                         *)
(*   SpecDiff    the pure diff engine, applied to every bounded input;     *)
(*   SpecAck     the parse of an acknowledgement frame, on every bounded   *)
(*               frame;                                                    *)
(*   SpecInsert  InsertLines, applied to every bounded input;              *)
(*   SpecMu      wsc.mu around the writes on the transport;                *)
(*   Spec        one WebSocketClient shared by concurrent callers, its     *)
(*               read loop and the remote service;                         *)
(*   SpecLive    Spec with the fairness of the 30-second timer;            *)
(*   SpecLoop    the read loop of one connection on every bounded frame;   *)
(*   SpecEnsure  Client.EnsureWebSocket under concurrent tool calls;       *)
(*   SpecCtx     one waiting commit call and its request context;          *)
(*   SpecClose   Connect, Close and the read loops of the transports;      *)
(*   SpecSession the SessionManager under concurrent requests and its      *)
(*               cleanup task.                                             *)
(***************************************************************************)
EXTENDS Integers, Sequences, FiniteSets, TLC

(***************************************************************************)
(* Bounds of the model.                                                    *)
(***************************************************************************)
MaxLen == 3

\* calls the callers make in one run, all callers together
MaxCalls == 2

\* frames the remote service sends in one run, after the handshakes
MaxInbound == 2

\* the largest correlation id of the frames the acknowledgement parse is run on
MaxAckId == 12

\* the most lines one InsertLines call is asked to insert
MaxNewLines == 2

(***************************************************************************)
(* Inputs the bounded runs draw from.                                      *)
(***************************************************************************)
Texts == {"a", "b"}

\* author identifiers: one longer than the 6-character suffix, one shorter
UserIDs == {"5f3a9c1e2b7d", "u1"}

\* time.Now().Unix() of the runs: two consecutive clock seconds
Times == {26, 27}

\* outcomes of the 4-byte draw, already hex encoded
RandomHex == {"00c0ffee", "deadbeef"}

(***************************************************************************)
(* Sequences                                                               *)
(***************************************************************************)
SeqsUpTo(S, n) == UNION {[1..k -> S] : k \in 0..n}

Min(a, b) == IF a < b THEN a ELSE b

(***************************************************************************)
(* createLineId                                                            *)
(***************************************************************************)
HexDigits == "0123456789abcdef"

RECURSIVE HexStr(_)
\* %x of a non-negative integer
HexStr(n) ==
    IF n < 16 THEN SubSeq(HexDigits, n + 1, n + 1)
    ELSE HexStr(n \div 16) \o SubSeq(HexDigits, (n % 16) + 1, (n % 16) + 1)

RECURSIVE ZeroPad(_, _)
\* the 0 flag with a minimum width: pads, never truncates
ZeroPad(s, width) == IF Len(s) >= width THEN s ELSE ZeroPad("0" \o s, width)

\* fmt.Sprintf("%08x", t)
Sprintf08x(t) == ZeroPad(HexStr(t), 8)

userIDSuffix(userID) ==
    IF Len(userID) < 6 THEN userID
    ELSE SubSeq(userID, Len(userID) - 6 + 1, Len(userID))

\* createLineId at clock second t with random draw r
createLineId(userID, t, r) ==
    Sprintf08x(t) \o userIDSuffix(userID) \o "0000" \o r

\* what one call of createLineId reads from its environment
Draws == [ts : Times, rnd : RandomHex]

\* the clock does not run backwards between successive calls
Monotone(draws) ==
    \A i \in 1..(Len(draws) - 1) : draws[i].ts <= draws[i + 1].ts

(***************************************************************************)
(* diffToChanges                                                           *)
(***************************************************************************)
Line(id, text) == [id |-> id, text |-> text]

UpdateOp(id, text) == [kind |-> "_update", ref |-> id, id |-> "", text |-> text]

DeleteOp(id) == [kind |-> "_delete", ref |-> id, id |-> "", text |-> ""]

InsertOp(after, id, text) == [kind |-> "_insert", ref |-> after, id |-> id, text |-> text]

\* a loop that does not compare the texts
RECURSIVE UpdatesEveryIndex(_, _, _, _)
UpdatesEveryIndex(oldLines, newTexts, i, minLen) ==
    IF i > minLen THEN <<>>
    ELSE <<UpdateOp(oldLines[i].id, newTexts[i])>>
         \o UpdatesEveryIndex(oldLines, newTexts, i + 1, minLen)

\* websocket.go 209-219: one _update per index below minLen whose text differs
RECURSIVE Updates(_, _, _, _)
Updates(oldLines, newTexts, i, minLen) ==
    IF i > minLen THEN <<>>
    ELSE (IF oldLines[i].text # newTexts[i]
          THEN <<UpdateOp(oldLines[i].id, newTexts[i])>>
          ELSE <<>>)
         \o Updates(oldLines, newTexts, i + 1, minLen)

\* a loop that deletes lowest index first
RECURSIVE DeletesAscending(_, _, _)
DeletesAscending(oldLines, i, newLen) ==
    IF i <= newLen THEN <<>>
    ELSE DeletesAscending(oldLines, i - 1, newLen) \o <<DeleteOp(oldLines[i].id)>>

\* a loop whose bound is off by one: it also deletes the line at newLen
RECURSIVE DeletesOffByOne(_, _, _)
DeletesOffByOne(oldLines, i, newLen) ==
    IF i < newLen \/ i < 1 THEN <<>>
    ELSE <<DeleteOp(oldLines[i].id)>> \o DeletesOffByOne(oldLines, i - 1, newLen)

\* websocket.go 221-227: for i := oldLen-1; i >= newLen; i-- (i is 1-based here)
RECURSIVE Deletes(_, _, _)
Deletes(oldLines, i, newLen) ==
    IF i <= newLen THEN <<>>
    ELSE <<DeleteOp(oldLines[i].id)>> \o Deletes(oldLines, i - 1, newLen)

\* a loop that forgets to move lastLineID to the line just inserted
RECURSIVE InsertsNoChain(_, _, _, _, _, _)
InsertsNoChain(newTexts, userID, draws, i, newLen, lastLineID) ==
    IF i > newLen THEN <<>>
    ELSE LET d == draws[1]
             newLineID == createLineId(userID, d.ts, d.rnd)
         IN  <<InsertOp(lastLineID, newLineID, newTexts[i])>>
             \o InsertsNoChain(newTexts, userID, Tail(draws), i + 1, newLen, lastLineID)

\* websocket.go 236-247: the insert loop, chaining lastLineID
RECURSIVE Inserts(_, _, _, _, _, _)
Inserts(newTexts, userID, draws, i, newLen, lastLineID) ==
    IF i > newLen THEN <<>>
    ELSE LET d == draws[1]
             newLineID == createLineId(userID, d.ts, d.rnd)
         IN  <<InsertOp(lastLineID, newLineID, newTexts[i])>>
             \o Inserts(newTexts, userID, Tail(draws), i + 1, newLen, newLineID)

\* the number of createLineId calls diffToChanges makes
NumMints(oldLines, newTexts) ==
    IF Len(newTexts) > Len(oldLines) THEN Len(newTexts) - Len(oldLines) ELSE 0

\* a diff that emits the length change before the index-wise Updates
diffToChangesLengthFirst(oldLines, newTexts, userID, draws) ==
    LET oldLen == Len(oldLines)
        newLen == Len(newTexts)
        lastLineID == IF oldLen > 0 THEN oldLines[oldLen].id ELSE ""
        minLen == Min(oldLen, newLen)
    IN  Deletes(oldLines, oldLen, newLen)
        \o (IF newLen > oldLen
            THEN Inserts(newTexts, userID, draws, oldLen + 1, newLen, lastLineID)
            ELSE <<>>)
        \o Updates(oldLines, newTexts, 1, minLen)

\* websocket.go 185-251: the three loops in the order of the code
diffToChanges(oldLines, newTexts, userID, draws) ==
    LET oldLen == Len(oldLines)
        newLen == Len(newTexts)
        lastLineID == IF oldLen > 0 THEN oldLines[oldLen].id ELSE ""
        minLen == Min(oldLen, newLen)
    IN  Updates(oldLines, newTexts, 1, minLen)
        \o Deletes(oldLines, oldLen, newLen)
        \o (IF newLen > oldLen
            THEN Inserts(newTexts, userID, draws, oldLen + 1, newLen, lastLineID)
            ELSE <<>>)

(***************************************************************************)
(* Frames                                                                  *)
(***************************************************************************)
RECURSIVE DecStr(_)
\* %d of a non-negative integer
DecStr(n) ==
    IF n < 10 THEN SubSeq("0123456789", n + 1, n + 1)
    ELSE DecStr(n \div 10) \o SubSeq("0123456789", (n % 10) + 1, (n % 10) + 1)

\* a byte of a frame, by its 0-based index as in the Go code
Byte(msg, i) == SubSeq(msg, i + 1, i + 1)

IsDigit(ch) == ch \in {"0", "1", "2", "3", "4", "5", "6", "7", "8", "9"}

\* JSON values an acknowledgement carries under a key
JsonStr(str) == [kind |-> "string", str |-> str, key |-> ""]

\* an object with one string member
JsonObj(key, str) == [kind |-> "object", str |-> str, key |-> key]

JsonEmptyObj == [kind |-> "object", str |-> "", key |-> ""]

\* json.Marshal of a decoded value: no insignificant whitespace
Marshal(v) ==
    IF v.kind = "string" THEN "\"" \o v.str \o "\""
    ELSE IF v.key = "" THEN "{}"
    ELSE "{\"" \o v.key \o "\":\"" \o v.str \o "\"}"

\* acknowledgement payloads the service sends
OkBody == "[{\"data\":{}}]"

ErrBody == "[{\"error\":\"conflict\"}]"

AckBodies == {OkBody, ErrBody}

\* further payloads a frame that starts with 43 can carry: an error object
\* written with a space, an error key in the second element only, an empty
\* array, an object where the array should be, and nothing
ErrObjBody == "[{\"error\":{\"name\": \"NotFastForwardError\"}}]"

ErrSecondBody == "[{\"data\":{}},{\"error\":\"conflict\"}]"

EmptyArrayBody == "[]"

NotArrayBody == "{\"error\":\"conflict\"}"

AllAckBodies ==
    AckBodies \cup {ErrObjBody, ErrSecondBody, EmptyArrayBody, NotArrayBody, ""}

PingFrame == "2"

AckFrame(id, body) == "43" \o DecStr(id) \o body

\* json.Unmarshal into []map[string]interface{}: each element by its keys
Unmarshal(text) ==
    CASE text = OkBody  -> [err |-> FALSE, elems |-> <<[data |-> JsonEmptyObj]>>]
      [] text = ErrBody -> [err |-> FALSE, elems |-> <<[error |-> JsonStr("conflict")]>>]
      [] text = ErrObjBody ->
            [err |-> FALSE,
             elems |-> <<[error |-> JsonObj("name", "NotFastForwardError")]>>]
      [] text = ErrSecondBody ->
            [err |-> FALSE,
             elems |-> <<[data |-> JsonEmptyObj], [error |-> JsonStr("conflict")]>>]
      [] text = EmptyArrayBody -> [err |-> FALSE, elems |-> <<>>]
      [] OTHER          -> [err |-> TRUE, elems |-> <<>>]

\* websocket.go 312-315: jsonStart after the loop over the digits
RECURSIVE SkipDigits(_, _)
SkipDigits(ackMsg, jsonStart) ==
    IF jsonStart < Len(ackMsg) /\ IsDigit(Byte(ackMsg, jsonStart))
    THEN SkipDigits(ackMsg, jsonStart + 1)
    ELSE jsonStart

\* a parse that starts at a fixed offset, as if every id had one digit
ackOutcomeOneDigit(ackMsg) ==
    IF Len(ackMsg) > 3
    THEN LET ackData == Unmarshal(SubSeq(ackMsg, 4, Len(ackMsg)))
         IN  IF ~ackData.err /\ Len(ackData.elems) > 0
                /\ "error" \in DOMAIN ackData.elems[1]
             THEN "Commit error: " \o Marshal(ackData.elems[1]["error"])
             ELSE "ok"
    ELSE "ok"

\* websocket.go 308-326: what the call returns for the frame its wait received
ackOutcome(ackMsg) ==
    IF Len(ackMsg) > 3
    THEN LET jsonStart == SkipDigits(ackMsg, 2)
         IN  IF jsonStart < Len(ackMsg)
             THEN LET ackData == Unmarshal(SubSeq(ackMsg, jsonStart + 1, Len(ackMsg)))
                  IN  IF ~ackData.err /\ Len(ackData.elems) > 0
                         /\ "error" \in DOMAIN ackData.elems[1]
                      THEN "Commit error: " \o Marshal(ackData.elems[1]["error"])
                      ELSE "ok"
             ELSE "ok"
    ELSE "ok"

\* frames written by the client: the text before the JSON array, and the array
ConnectFrame == [head |-> "40", body |-> <<>>]

PongFrame == [head |-> "3", body |-> <<>>]

\* fmt.Sprintf("42%d%s", ackID, reqJSON)
CommitFrame(id, reqBody) == [head |-> "42" \o DecStr(id), body |-> reqBody]

IsCommitFrame(f) == Len(f.head) >= 2 /\ SubSeq(f.head, 1, 2) = "42"

\* the optional parentId: <<>> is JSON null
JsonNull == <<>>

JsonString(str) == <<str>>

commitData(projectID, pageID, parentId, author, ops) ==
    [kind |-> "page", projectId |-> projectID, pageId |-> pageID,
     parentId |-> parentId, userId |-> author, changes |-> ops,
     cursor |-> JsonNull, freeze |-> TRUE]

requestBody(data) == <<"socket.io-request", [method |-> "commit", data |-> data]>>

(***************************************************************************)
(* handleHandshake                                                         *)
(***************************************************************************)
ReadErr == [err |-> TRUE, msg |-> ""]

ReadOf(m) == [err |-> FALSE, msg |-> m]

\* what the service may answer while the client shakes hands
HandshakeReads ==
    {ReadErr} \cup
    {ReadOf(m) : m \in {"0{\"sid\":\"s1\"}", "0", "40", "40{\"sid\":\"s2\"}", "44"}}

\* a run of the handshake: the first frame read, whether the write of "40"
\* succeeds, the second frame read
HandshakeRuns == [open : HandshakeReads, write : BOOLEAN, reply : HandshakeReads]

\* a handshake that accepts any second frame
handleHandshakeAnyReply(run) ==
    IF run.open.err THEN [err |-> TRUE, wrote |-> FALSE]
    ELSE IF Len(run.open.msg) < 2 \/ Byte(run.open.msg, 0) # "0"
    THEN [err |-> TRUE, wrote |-> FALSE]
    ELSE IF ~run.write THEN [err |-> TRUE, wrote |-> FALSE]
    ELSE IF run.reply.err THEN [err |-> TRUE, wrote |-> TRUE]
    ELSE [err |-> FALSE, wrote |-> TRUE]

\* err: handleHandshake returned an error; wrote: the "40" frame was written
handleHandshake(run) ==
    IF run.open.err THEN [err |-> TRUE, wrote |-> FALSE]
    ELSE IF Len(run.open.msg) < 2 \/ Byte(run.open.msg, 0) # "0"
    THEN [err |-> TRUE, wrote |-> FALSE]
    ELSE IF ~run.write THEN [err |-> TRUE, wrote |-> FALSE]
    ELSE IF run.reply.err THEN [err |-> TRUE, wrote |-> TRUE]
    ELSE IF Len(run.reply.msg) < 2 \/ Byte(run.reply.msg, 0) # "4"
            \/ Byte(run.reply.msg, 1) # "0"
    THEN [err |-> TRUE, wrote |-> TRUE]
    ELSE [err |-> FALSE, wrote |-> TRUE]

\* what a handshake can come to, over all the runs
HandshakeOutcomes == {handleHandshake(run) : run \in HandshakeRuns}

(***************************************************************************)
(* State                                                                   *)
(***************************************************************************)
VARIABLES
    \* the diff engine's run (SpecDiff)
    oldLines, newTexts, userID, changes, diffDone,
    \* the run of the acknowledgement parse (SpecAck)
    ackMsg,         \* the frame received from wsc.ackChan
    ackRet,         \* what the call returns for it
    ackDone,
    \* the run of InsertLines (SpecInsert)
    targetLine, newLines,
    \* wsc.mu and the frame writers (SpecMu)
    mu,             \* the goroutine that holds wsc.mu, "" when it is free
    writing,        \* the goroutines inside a write on the transport
    mpc,            \* mpc[g]: where goroutine g is around its write
    \* the Client's WebSocketClient field and the tool calls (SpecEnsure)
    wsClient,       \* c.WebSocketClient: 0 is nil, i the i-th instance created
    created,        \* the WebSocketClient instances created so far
    epc,            \* epc[t]: where tool call t is in Execute
    seen,           \* seen[t]: the instance t found or stored in EnsureWebSocket
    used,           \* used[t]: the instance t's write operation ran on
    \* the context of a caller's request (SpecCtx)
    ctxDone,        \* the callers whose context is cancelled or past its deadline
    \* the read loops next to Close (SpecClose)
    reading,        \* reading[k]: the transport loop k's ReadMessage is pending on, or 0
    \* the SessionManager and the requests on /mcp (SpecSession)
    inTable,        \* the ids sm.sessions holds
    lastAccess,     \* lastAccess[id]: LastAccessAt of the Session object of id
    nextId,         \* the sessions Create has made; the next id is nextId + 1
    clock,          \* time.Now()
    nreq,           \* the requests that have arrived
    rpc,            \* rpc[r]: where request goroutine r is in its handler
    rreq,           \* rreq[r]: the request r serves
    rresp,          \* rresp[r]: the response r has written
    cpc,            \* where the cleanup goroutine is
    cnow,           \* the now of the cleanup tick
    cseen,          \* the ids the Range of this tick has still to visit
    cexp,           \* the id the Range callback found expired, or 0
    \* WebSocketClient fields
    connected,      \* wsc.connected
    conn,           \* wsc.conn: 0 is nil, k the k-th dialed transport
    ackID,          \* wsc.ackID
    ackChan,        \* wsc.ackChan, a channel of capacity AckChanCap
    \* the transports
    up,             \* up[k]: transport k still carries frames
    inbound,        \* inbound[k]: frames sent by the service, not yet read
    outbound,       \* outbound[k]: frames written by the client, in order
    nsent,          \* frames the service has sent after the handshakes
    \* the read loops: one goroutine per successful Connect
    hpc,            \* hpc[k]: where the loop started by the k-th Connect is
    dropped,        \* acknowledgements the loop discarded (default branch)
    \* the callers
    pc,             \* pc[c]: where caller c is in its call
    call,           \* call[c]: the arguments of c's current call
    req,            \* req[c]: the commit data c has built
    myAck,          \* myAck[c]: the local ackID of c's call
    sentOn,         \* sentOn[c]: the transport c's frame was written to
    got,            \* got[c]: the frame c's wait received
    result,         \* result[c]: what the call returned
    ncalls,         \* ncalls[c]: calls c has started so far
    prev            \* prev[c]: what c's previous call returned, and its id

diffVars == <<oldLines, newTexts, userID, changes, diffDone>>

ackVars == <<ackMsg, ackRet, ackDone>>

insVars == <<targetLine, newLines>>

muVars == <<mu, writing, mpc>>

\* the variables of the runs of single functions, which the client leaves alone
sessVars == <<inTable, lastAccess, nextId, clock, nreq, rpc, rreq, rresp,
              cpc, cnow, cseen, cexp>>

toolVars == <<wsClient, created, epc, seen, used, ctxDone, reading, sessVars>>

pureVars == <<diffVars, ackVars, insVars, muVars, toolVars>>

wscVars == <<connected, conn, ackID, ackChan>>

netVars == <<up, inbound, outbound, nsent>>

loopVars == <<hpc, dropped>>

callVars == <<pc, call, req, myAck, sentOn, got, result, ncalls, prev>>

vars == <<pureVars, wscVars, netVars, loopVars, callVars>>

\* make(chan []byte, 1)
AckChanCap == 1

Callers == {"c1", "c2"}

\* every call dials at most once
Conns == 1..MaxCalls

\* websocket.go 61-68: the client after NewWebSocketClient, nothing dialed
InitClient ==
    /\ connected = FALSE
    /\ conn = 0
    /\ ackID = 0
    /\ ackChan = <<>>
    /\ up = [k \in Conns |-> FALSE]
    /\ inbound = [k \in Conns |-> <<>>]
    /\ outbound = [k \in Conns |-> <<>>]
    /\ nsent = 0
    /\ hpc = [k \in Conns |-> "none"]
    /\ dropped = <<>>

NoCall == [api |-> "", given |-> <<>>,
           op |-> "", page |-> [id |-> "", commitID |-> "", lines |-> <<>>],
           newTexts |-> <<>>, title |-> "", bodyLines |-> <<>>,
           projectID |-> "", userID |-> ""]

NoReq == <<>>

InitCallers ==
    /\ pc = [c \in Callers |-> "idle"]
    /\ call = [c \in Callers |-> NoCall]
    /\ req = [c \in Callers |-> NoReq]
    /\ myAck = [c \in Callers |-> 0]
    /\ sentOn = [c \in Callers |-> 0]
    /\ got = [c \in Callers |-> ""]
    /\ result = [c \in Callers |-> ""]
    /\ ncalls = [c \in Callers |-> 0]
    /\ prev = [c \in Callers |-> [result |-> "", ack |-> 0]]

\* no run of the acknowledgement parse
NoAckRun == ackMsg = "" /\ ackRet = "" /\ ackDone = FALSE

\* no run of InsertLines
NoInsertRun == targetLine = "" /\ newLines = <<>>

\* the goroutines that write to the transport or close it: two callers inside
\* PatchPage or CreatePage, the read loop, a caller inside Connect, Close
Goroutines == {"commit1", "commit2", "messageHandler", "Connect", "Close"}

\* websocket.go 478-486: how many tool calls run against the Client
MaxToolCalls == 3

ToolCalls == 1..MaxToolCalls

\* how many sessions Create makes
MaxSessions == 2

\* how far the clock runs
MaxClock == 3

\* how many requests arrive on /mcp
MaxRequests == 3

\* main.go 52: cfg.SessionTTL, in ticks of the clock
SessionTTL == 1

SessionIds == 1..MaxSessions

\* the goroutines net/http serves requests on
Requests == {"r1", "r2"}

\* a request: its arrival number, its method, the session id of its
\* Mcp-Session-Id header (0: no header) and whether its Origin is accepted
NoRequest == [n |-> 0, kind |-> "", sid |-> 0, origin |-> TRUE]

NoResponse == [status |-> 0, header |-> 0, handled |-> "", err |-> FALSE]

\* session.go 23-32: the SessionManager after NewSessionManager: an empty
\* table, the cleanup goroutine waiting for its first tick, no request yet
InitSessionManager ==
    /\ inTable = {}
    /\ lastAccess = [id \in SessionIds |-> 0]
    /\ nextId = 0
    /\ clock = 0
    /\ nreq = 0
    /\ rpc = [r \in Requests |-> "idle"]
    /\ rreq = [r \in Requests |-> NoRequest]
    /\ rresp = [r \in Requests |-> NoResponse]
    /\ cpc = "sleep"
    /\ cnow = 0
    /\ cseen = {}
    /\ cexp = 0

\* the Client has no WebSocketClient yet, no tool call has started, no
\* request context is cancelled, no read is pending, no session exists
NoToolRun ==
    /\ wsClient = 0
    /\ created = 0
    /\ epc = [t \in ToolCalls |-> "idle"]
    /\ seen = [t \in ToolCalls |-> 0]
    /\ used = [t \in ToolCalls |-> 0]
    /\ ctxDone = {}
    /\ reading = [k \in 1..MaxCalls |-> 0]
    /\ InitSessionManager

\* wsc.mu is free and nobody is near a write
MuIdle ==
    /\ mu = ""
    /\ writing = {}
    /\ mpc = [g \in Goroutines |-> "idle"]

\* identifiers of the lines of the fetched page, by position (pairwise distinct):
\* minted in earlier clock seconds
OldLineID(i) == createLineId("5f3a9c1e2b7d", i, "0badf00d")

\* a fetched page's lines: texts from Texts, ids by position
PageLines(texts) == [i \in 1..Len(texts) |-> Line(OldLineID(i), texts[i])]

(***************************************************************************)
(* SpecDiff: diffToChanges on every bounded input                          *)
(***************************************************************************)
InitDiff ==
    /\ \E texts \in SeqsUpTo(Texts, MaxLen) : oldLines = PageLines(texts)
    /\ newTexts \in SeqsUpTo(Texts, MaxLen)
    /\ userID \in UserIDs
    /\ changes = <<>>
    /\ diffDone = FALSE
    /\ NoAckRun
    /\ NoInsertRun
    /\ MuIdle
    /\ NoToolRun
    /\ InitClient
    /\ InitCallers

RunDiff ==
    /\ ~diffDone
    /\ \E draws \in [1..NumMints(oldLines, newTexts) -> Draws] :
          /\ Monotone(draws)
          /\ changes' = diffToChanges(oldLines, newTexts, userID, draws)
    /\ diffDone' = TRUE
    /\ UNCHANGED <<oldLines, newTexts, userID>>
    /\ UNCHANGED <<ackVars, insVars, muVars, toolVars>>
    /\ UNCHANGED <<wscVars, netVars, loopVars, callVars>>

NextDiff == RunDiff

SpecDiff == InitDiff /\ [][NextDiff]_vars

\* no run of the diff engine
NoDiffRun ==
    /\ oldLines = <<>>
    /\ newTexts = <<>>
    /\ userID = "5f3a9c1e2b7d"
    /\ changes = <<>>
    /\ diffDone = FALSE

(***************************************************************************)
(* SpecAck: the parse of the frame a wait received, on every bounded frame *)
(***************************************************************************)
\* the frames a wait can receive: every payload under every id
AckFrames == {AckFrame(id, body) : id \in 1..MaxAckId, body \in AllAckBodies}

InitAck ==
    /\ ackMsg \in AckFrames
    /\ ackRet = ""
    /\ ackDone = FALSE
    /\ NoDiffRun
    /\ NoInsertRun
    /\ MuIdle
    /\ NoToolRun
    /\ InitClient
    /\ InitCallers

\* websocket.go 308-326: the ack case of the select, from the frame to the return
RunAck ==
    /\ ~ackDone
    /\ ackRet' = ackOutcome(ackMsg)
    /\ ackDone' = TRUE
    /\ UNCHANGED <<ackMsg, diffVars, insVars, muVars, toolVars>>
    /\ UNCHANGED <<wscVars, netVars, loopVars, callVars>>

NextAck == RunAck

SpecAck == InitAck /\ [][NextAck]_vars

(***************************************************************************)
(* SpecMu: wsc.mu around the writes on the transport                       *)
(***************************************************************************)
InitMu ==
    /\ MuIdle
    /\ NoToolRun
    /\ NoDiffRun
    /\ NoAckRun
    /\ NoInsertRun
    /\ InitClient
    /\ InitCallers

MuStep(g, from, to) ==
    /\ mpc[g] = from
    /\ mpc' = [mpc EXCEPT ![g] = to]

\* a goroutine reaches its wsc.mu.Lock(): 72, 166, 295, 429, 466
MuCall(g) ==
    /\ MuStep(g, "idle", "lock")
    /\ UNCHANGED <<mu, writing>>

\* a Lock that returns although the mutex is held
MuLockWithoutWaiting(g) ==
    /\ MuStep(g, "lock", "held")
    /\ mu' = g
    /\ UNCHANGED writing

\* wsc.mu.Lock() returns once the mutex is free
MuLock(g) ==
    /\ mu = ""
    /\ MuStep(g, "lock", "held")
    /\ mu' = g
    /\ UNCHANGED writing

\* the goroutine enters its call on the transport: WriteMessage of the commit
\* frame (299, 433), of "3" (167), of "40" (134); conn.Close() (471)
MuWriteBegin(g) ==
    /\ MuStep(g, "held", "write")
    /\ writing' = writing \cup {g}
    /\ UNCHANGED mu

\* that call returns
MuWriteEnd(g) ==
    /\ MuStep(g, "write", "wrote")
    /\ writing' = writing \ {g}
    /\ UNCHANGED mu

\* Connect returns before the write of "40" (75-77, 98-100, 123-130), Close
\* finds no transport (469)
MuSkipWrite(g) ==
    /\ g \in {"Connect", "Close"}
    /\ MuStep(g, "held", "wrote")
    /\ UNCHANGED <<mu, writing>>

\* wsc.mu.Unlock(): 168, 300, 434, and the deferred ones of Connect and Close
MuUnlock(g) ==
    /\ MuStep(g, "wrote", "idle")
    /\ mu' = ""
    /\ UNCHANGED writing

NextMu ==
    /\ \E g \in Goroutines :
          \/ MuCall(g)
          \/ MuLock(g)
          \/ MuWriteBegin(g)
          \/ MuWriteEnd(g)
          \/ MuSkipWrite(g)
          \/ MuUnlock(g)
    /\ UNCHANGED <<diffVars, ackVars, insVars, toolVars>>
    /\ UNCHANGED <<wscVars, netVars, loopVars, callVars>>

SpecMu == InitMu /\ [][NextMu]_vars

(***************************************************************************)
(* Spec: one WebSocketClient, its callers, its read loops, the service     *)
(***************************************************************************)
ProjectID == "proj1"

Author == "5f3a9c1e2b7d"

\* the page GetPage returned: one line, already committed once
ExistingPage == [id |-> "p1", commitID |-> "c1", lines |-> PageLines(<<"a">>)]

\* the page info GetPage returns for a title that has no page yet
NewPage == [id |-> "p2", commitID |-> "", lines |-> <<>>]

PatchCall(page, texts) ==
    [op |-> "PatchPage", page |-> page, newTexts |-> texts, title |-> "",
     bodyLines |-> <<>>, projectID |-> ProjectID, userID |-> Author]

CreateCall(page, title, bodyLines) ==
    [op |-> "CreatePage", page |-> page, newTexts |-> <<>>, title |-> title,
     bodyLines |-> bodyLines, projectID |-> ProjectID, userID |-> Author]

\* strings.Contains(str, "\n")
RECURSIVE ContainsNewline(_)
ContainsNewline(str) ==
    IF Len(str) = 0 THEN FALSE
    ELSE IF SubSeq(str, 1, 1) = "\n" THEN TRUE
    ELSE ContainsNewline(SubSeq(str, 2, Len(str)))

\* strings.Split(str, "\n"), with cur the piece read so far
RECURSIVE SplitNewline(_, _)
SplitNewline(str, cur) ==
    IF Len(str) = 0 THEN <<cur>>
    ELSE IF SubSeq(str, 1, 1) = "\n"
    THEN <<cur>> \o SplitNewline(SubSeq(str, 2, Len(str)), "")
    ELSE SplitNewline(SubSeq(str, 2, Len(str)), cur \o SubSeq(str, 1, 1))

\* websocket.go 555-559: a single string with newlines is split into lines
ParseLines(bodyLines) ==
    IF Len(bodyLines) = 1 /\ ContainsNewline(bodyLines[1])
    THEN SplitNewline(bodyLines[1], "")
    ELSE bodyLines

\* a Client.CreatePage that takes the snapshot path whatever the page's token
ClientCreatePageAlwaysSnapshot(page, title, bodyLines) ==
    [api |-> "Client.CreatePage", given |-> bodyLines]
        @@ CreateCall(page, title, ParseLines(bodyLines))

\* websocket.go 548-583: the call Client.CreatePage makes on the
\* WebSocketClient for the page info GetPage returned
ClientCreatePage(page, title, bodyLines) ==
    LET lines == ParseLines(bodyLines)
    IN  [api |-> "Client.CreatePage", given |-> bodyLines]
        @@ (IF page.commitID # ""
            THEN [PatchCall(page, <<title>> \o lines) EXCEPT !.title = title]
            ELSE CreateCall(page, title, lines))

\* create_page.go 68-80: the call CreatePageTool.Execute makes on the client
\* for the arguments title and body, with page the page info GetPage returns
CreatePageToolExecute(page, title, body) ==
    ClientCreatePage(page, title,
                     IF body # "" THEN SplitNewline(body, "") ELSE <<>>)

\* the page GetPage returns once a further commit has been applied to it
LaterPage == [ExistingPage EXCEPT !.commitID = "c2"]

\* the calls of the runs, all made through Client.CreatePage: an existing
\* page given its own content (an empty diff), the page at a later version
\* given a new title above its line (an update and an insert), a new page
\* whose body comes as one string of two lines
CallInputs ==
    {ClientCreatePage(ExistingPage, "a", <<>>),
     ClientCreatePage(LaterPage, "b", <<"a">>),
     ClientCreatePage(NewPage, "t", <<"a\nb">>)}

\* what createLineId reads in these runs: one clock second, one random draw
CallDraws == {d \in Draws : d.ts = 26 /\ d.rnd = "00c0ffee"}

InitSpec ==
    /\ oldLines = <<>>
    /\ newTexts = <<>>
    /\ userID = Author
    /\ changes = <<>>
    /\ diffDone = FALSE
    /\ NoAckRun
    /\ NoInsertRun
    /\ MuIdle
    /\ NoToolRun
    /\ InitClient
    /\ InitCallers

\* websocket.go 373-402: the snapshot CreatePage builds, one mint per line
RECURSIVE SnapshotLines(_, _, _)
SnapshotLines(texts, author, draws) ==
    IF texts = <<>> THEN <<>>
    ELSE <<Line(createLineId(author, draws[1].ts, draws[1].rnd), Head(texts))>>
         \o SnapshotLines(Tail(texts), author, Tail(draws))

TitleChange(title) == [title |-> title]

LinesChange(allLines) == [lines |-> allLines]

\* the createLineId calls a call makes before it sends
CallMints(in) ==
    IF in.op = "PatchPage" THEN NumMints(in.page.lines, in.newTexts)
    ELSE 1 + Len(in.bodyLines)

\* websocket.go 262-288 and 373-422: the changes of the call
callChanges(in, draws) ==
    IF in.op = "PatchPage"
    THEN diffToChanges(in.page.lines, in.newTexts, in.userID, draws)
    ELSE <<TitleChange(in.title),
           LinesChange(SnapshotLines(<<in.title>> \o in.bodyLines, in.userID, draws))>>

\* a PatchPage without the early return
NothingToSendNever(in, ops) == FALSE

\* PatchPage returns before it builds a commit when there is nothing to change
NothingToSend(in, ops) == in.op = "PatchPage" /\ Len(ops) = 0

\* a request whose parent is the token of the page as it was first fetched
callRequestRememberedToken(in, ops) ==
    requestBody(commitData(in.projectID, in.page.id,
        IF in.op = "PatchPage" THEN JsonString(ExistingPage.commitID) ELSE JsonNull,
        in.userID, ops))

\* websocket.go 270-286 and 405-420: the request of the call, whose parent
\* is the token of the page the call was handed
callRequest(in, ops) ==
    requestBody(commitData(in.projectID, in.page.id,
        IF in.op = "PatchPage" THEN JsonString(in.page.commitID) ELSE JsonNull,
        in.userID, ops))

\* a caller enters PatchPage or CreatePage of the WebSocketClient with the
\* arguments in; the callers are interchangeable, so c2 never calls first
Enter(c, in) ==
    /\ pc[c] \in {"idle", "done"}
    /\ ncalls["c1"] + ncalls["c2"] < MaxCalls
    /\ c = "c2" => ncalls["c1"] > 0
    /\ call' = [call EXCEPT ![c] = in]
    /\ ncalls' = [ncalls EXCEPT ![c] = @ + 1]
    /\ myAck' = [myAck EXCEPT ![c] = 0]
    /\ sentOn' = [sentOn EXCEPT ![c] = 0]
    /\ got' = [got EXCEPT ![c] = ""]
    /\ prev' = [prev EXCEPT ![c] = [result |-> result[c], ack |-> myAck[c]]]

\* Connect returned an error: the call returns it
ReturnConnectError(c) ==
    /\ pc' = [pc EXCEPT ![c] = "done"]
    /\ result' = [result EXCEPT ![c] = "connect_error"]
    /\ req' = [req EXCEPT ![c] = NoReq]

\* Connect returned nil: the call computes its changes, which reads nothing
\* shared, and returns at once or goes on to send them
Build(c, in) ==
    \E draws \in [1..CallMints(in) -> CallDraws] :
        LET ops == callChanges(in, draws)
        IN  IF NothingToSend(in, ops)
            THEN /\ pc' = [pc EXCEPT ![c] = "done"]
                 /\ result' = [result EXCEPT ![c] = "ok"]
                 /\ req' = [req EXCEPT ![c] = NoReq]
            ELSE /\ pc' = [pc EXCEPT ![c] = "send"]
                 /\ result' = [result EXCEPT ![c] = ""]
                 /\ req' = [req EXCEPT ![c] = callRequest(in, ops)]

\* a Connect without the early return: it dials again
CallConnectedRedials(c) ==
    /\ connected /\ conn # 0
    /\ conn < MaxCalls
    /\ \E in \in CallInputs : Enter(c, in) /\ Build(c, in)
    /\ conn' = conn + 1
    /\ ackID' = 0
    /\ connected' = TRUE
    /\ outbound' = [outbound EXCEPT ![conn + 1] = <<ConnectFrame>>]
    /\ up' = [up EXCEPT ![conn + 1] = TRUE]
    /\ hpc' = [hpc EXCEPT ![conn + 1] = "read"]
    /\ UNCHANGED <<pureVars, ackChan, inbound, nsent, dropped>>

\* websocket.go 75-77: Connect on a connected client changes nothing
CallConnected(c) ==
    /\ connected /\ conn # 0
    /\ \E in \in CallInputs : Enter(c, in) /\ Build(c, in)
    /\ UNCHANGED <<pureVars, wscVars, netVars, loopVars>>

\* websocket.go 97-100: the dial fails
CallDialFails(c) ==
    /\ ~(connected /\ conn # 0)
    /\ \E in \in CallInputs : Enter(c, in)
    /\ ReturnConnectError(c)
    /\ UNCHANGED <<pureVars, wscVars, netVars, loopVars>>

\* websocket.go 102-116: the dial succeeds, the handshake runs; Connect holds
\* wsc.mu from entry to return
CallDials(c) ==
    /\ ~(connected /\ conn # 0)
    /\ conn < MaxCalls
    /\ \E in \in CallInputs, hs \in HandshakeOutcomes :
          LET k == conn + 1
          IN  /\ Enter(c, in)
              /\ conn' = k
              /\ ackID' = 0
              /\ outbound' = [outbound EXCEPT
                                ![k] = IF hs.wrote THEN <<ConnectFrame>> ELSE <<>>]
              /\ IF hs.err
                 THEN \* wsc.conn.Close(); wsc.connected = false; return err
                      /\ connected' = FALSE
                      /\ up' = [up EXCEPT ![k] = FALSE]
                      /\ ReturnConnectError(c)
                      /\ UNCHANGED hpc
                 ELSE \* go wsc.messageHandler(); return nil
                      /\ connected' = TRUE
                      /\ up' = [up EXCEPT ![k] = TRUE]
                      /\ hpc' = [hpc EXCEPT ![k] = "read"]
                      /\ Build(c, in)
    /\ UNCHANGED <<pureVars, ackChan, inbound, nsent, dropped>>

Return(c, res) ==
    /\ pc' = [pc EXCEPT ![c] = "done"]
    /\ result' = [result EXCEPT ![c] = res]

\* a send that reads the counter without advancing it
SendWithoutIncrement(c) ==
    /\ pc[c] = "send"
    /\ ackID' = ackID
    /\ myAck' = [myAck EXCEPT ![c] = ackID]
    /\ sentOn' = [sentOn EXCEPT ![c] = conn]
    /\ \/ /\ up[conn]
          /\ outbound' = [outbound EXCEPT
                            ![conn] = Append(@, CommitFrame(ackID, req[c]))]
          /\ pc' = [pc EXCEPT ![c] = "wait"]
          /\ UNCHANGED result
       \/ /\ ~up[conn]
          /\ pc' = [pc EXCEPT ![c] = "done"]
          /\ result' = [result EXCEPT ![c] = "send_error"]
          /\ UNCHANGED outbound
    /\ UNCHANGED <<pureVars, connected, conn, ackChan, up, inbound, nsent,
                   loopVars, call, req, got, ncalls, prev>>

\* websocket.go 295-304 and 429-438: under wsc.mu, take the next id and write
Send(c) ==
    /\ pc[c] = "send"
    /\ ackID' = ackID + 1
    /\ myAck' = [myAck EXCEPT ![c] = ackID + 1]
    /\ sentOn' = [sentOn EXCEPT ![c] = conn]
    /\ \/ \* the write succeeds
          /\ up[conn]
          /\ outbound' = [outbound EXCEPT
                            ![conn] = Append(@, CommitFrame(ackID + 1, req[c]))]
          /\ pc' = [pc EXCEPT ![c] = "wait"]
          /\ UNCHANGED result
       \/ \* the write fails on a transport that is gone
          /\ ~up[conn]
          /\ Return(c, "send_error")
          /\ UNCHANGED outbound
    /\ UNCHANGED <<pureVars, connected, conn, ackChan, up, inbound, nsent,
                   loopVars, call, req, got, ncalls, prev>>

\* websocket.go 307-326: case ackMsg := <-wsc.ackChan
AwaitAck(c) ==
    /\ pc[c] = "wait"
    /\ ackChan # <<>>
    /\ got' = [got EXCEPT ![c] = Head(ackChan)]
    /\ ackChan' = Tail(ackChan)
    /\ Return(c, ackOutcome(Head(ackChan)))
    /\ UNCHANGED <<pureVars, connected, conn, ackID, netVars, loopVars,
                   call, req, myAck, sentOn, ncalls, prev>>

\* a wait whose timer fires only while the read loop of its transport runs
TimeoutOnlyWhileReading(c) ==
    /\ pc[c] = "wait"
    /\ hpc[sentOn[c]] \in {"read", "pong"}
    /\ pc' = [pc EXCEPT ![c] = "done"]
    /\ result' = [result EXCEPT ![c] = "timeout"]
    /\ UNCHANGED <<pureVars, wscVars, netVars, loopVars,
                   call, req, myAck, sentOn, got, ncalls, prev>>

\* a wait that sends the request again when the timer fires
TimeoutRetries(c) ==
    /\ pc[c] = "wait"
    /\ pc' = [pc EXCEPT ![c] = "send"]
    /\ UNCHANGED <<pureVars, wscVars, netVars, loopVars,
                   call, req, myAck, sentOn, got, result, ncalls, prev>>

\* websocket.go 327-328: case <-time.After(30 * time.Second)
Timeout(c) ==
    /\ pc[c] = "wait"
    /\ Return(c, "timeout")
    /\ UNCHANGED <<pureVars, wscVars, netVars, loopVars,
                   call, req, myAck, sentOn, got, ncalls, prev>>

\* websocket.go 153: for wsc.connected
LoopAgain(k) == hpc' = [hpc EXCEPT ![k] = IF connected THEN "read" ELSE "done"]

\* a read loop whose hand-off is a plain channel send: it waits while the
\* wait slot is full
LoopReadBlocksWhenFull(k) ==
    /\ hpc[k] = "read"
    /\ inbound[conn] # <<>>
    /\ LET message == Head(inbound[conn])
       IN  /\ inbound' = [inbound EXCEPT ![conn] = Tail(@)]
           /\ IF Len(message) = 0
              THEN /\ LoopAgain(k)
                   /\ UNCHANGED <<ackChan, dropped>>
              ELSE IF Byte(message, 0) = "2"
              THEN /\ hpc' = [hpc EXCEPT ![k] = "pong"]
                   /\ UNCHANGED <<ackChan, dropped>>
              ELSE IF Len(message) >= 2 /\ Byte(message, 0) = "4"
                      /\ Byte(message, 1) = "3"
              THEN /\ LoopAgain(k)
                   /\ Len(ackChan) < AckChanCap
                   /\ ackChan' = Append(ackChan, message)
                   /\ UNCHANGED dropped
              ELSE /\ LoopAgain(k)
                   /\ UNCHANGED <<ackChan, dropped>>
    /\ UNCHANGED <<pureVars, connected, conn, ackID, up, outbound, nsent, callVars>>

\* a read loop that takes every frame of Socket.IO type 4 for an
\* acknowledgement
LoopReadAnyType4IsAck(k) ==
    /\ hpc[k] = "read"
    /\ inbound[conn] # <<>>
    /\ LET message == Head(inbound[conn])
       IN  /\ inbound' = [inbound EXCEPT ![conn] = Tail(@)]
           /\ IF Len(message) = 0
              THEN /\ LoopAgain(k)
                   /\ UNCHANGED <<ackChan, dropped>>
              ELSE IF Byte(message, 0) = "2"
              THEN /\ hpc' = [hpc EXCEPT ![k] = "pong"]
                   /\ UNCHANGED <<ackChan, dropped>>
              ELSE IF Byte(message, 0) = "4"
              THEN /\ LoopAgain(k)
                   /\ IF Len(ackChan) < AckChanCap
                      THEN ackChan' = Append(ackChan, message) /\ UNCHANGED dropped
                      ELSE dropped' = Append(dropped, [conn |-> conn, frame |-> message])
                           /\ UNCHANGED ackChan
              ELSE /\ LoopAgain(k)
                   /\ UNCHANGED <<ackChan, dropped>>
    /\ UNCHANGED <<pureVars, connected, conn, ackID, up, outbound, nsent, callVars>>

\* websocket.go 154-178: ReadMessage on wsc.conn returns a frame
LoopRead(k) ==
    /\ hpc[k] = "read"
    /\ inbound[conn] # <<>>
    /\ LET message == Head(inbound[conn])
       IN  /\ inbound' = [inbound EXCEPT ![conn] = Tail(@)]
           /\ IF Len(message) = 0
              THEN /\ LoopAgain(k)
                   /\ UNCHANGED <<ackChan, dropped>>
              ELSE IF Byte(message, 0) = "2"
              THEN /\ hpc' = [hpc EXCEPT ![k] = "pong"]
                   /\ UNCHANGED <<ackChan, dropped>>
              ELSE IF Len(message) >= 2 /\ Byte(message, 0) = "4"
                      /\ Byte(message, 1) = "3"
              THEN /\ LoopAgain(k)
                   /\ IF Len(ackChan) < AckChanCap
                      THEN ackChan' = Append(ackChan, message) /\ UNCHANGED dropped
                      ELSE dropped' = Append(dropped, [conn |-> conn, frame |-> message])
                           /\ UNCHANGED ackChan
              ELSE /\ LoopAgain(k)
                   /\ UNCHANGED <<ackChan, dropped>>
    /\ UNCHANGED <<pureVars, connected, conn, ackID, up, outbound, nsent, callVars>>

\* a read loop that exits on a read error without clearing the flag
LoopReadErrorKeepsFlag(k) ==
    /\ hpc[k] = "read"
    /\ inbound[conn] = <<>>
    /\ ~up[conn]
    /\ hpc' = [hpc EXCEPT ![k] = "done"]
    /\ UNCHANGED <<pureVars, wscVars, netVars, dropped, callVars>>

\* websocket.go 155-158: ReadMessage returns an error
LoopReadError(k) ==
    /\ hpc[k] = "read"
    /\ inbound[conn] = <<>>
    /\ ~up[conn]
    /\ connected' = FALSE
    /\ hpc' = [hpc EXCEPT ![k] = "done"]
    /\ UNCHANGED <<pureVars, conn, ackID, ackChan, netVars, dropped, callVars>>

\* a read loop that goes on without answering the ping
LoopPongSkipsWrite(k) ==
    /\ hpc[k] = "pong"
    /\ hpc' = [hpc EXCEPT ![k] = IF connected THEN "read" ELSE "done"]
    /\ UNCHANGED <<pureVars, wscVars, netVars, dropped, callVars>>

\* websocket.go 166-169: the pong, under wsc.mu; its error is not looked at
LoopPong(k) ==
    /\ hpc[k] = "pong"
    /\ outbound' = [outbound EXCEPT
                      ![conn] = IF up[conn] THEN Append(@, PongFrame) ELSE @]
    /\ LoopAgain(k)
    /\ UNCHANGED <<pureVars, wscVars, up, inbound, nsent, dropped, callVars>>

\* the correlation ids of the commit frames the service received on transport k
ReceivedIds(k) ==
    {i \in 1..MaxCalls : \E j \in 1..Len(outbound[k]) :
        outbound[k][j].head = "42" \o DecStr(i)}

\* the service sends a ping, or an acknowledgement of a commit it received
ServerSend(k) ==
    /\ hpc[k] # "none"
    /\ up[k]
    /\ nsent < MaxInbound
    /\ \E f \in {PingFrame} \cup
                {AckFrame(i, b) : i \in ReceivedIds(k), b \in AckBodies} :
          inbound' = [inbound EXCEPT ![k] = Append(@, f)]
    /\ nsent' = nsent + 1
    /\ UNCHANGED <<pureVars, wscVars, up, outbound, loopVars, callVars>>

\* the transport breaks: reads on it fail once its queue is drained
TransportFail(k) ==
    /\ hpc[k] # "none"
    /\ up[k]
    /\ up' = [up EXCEPT ![k] = FALSE]
    /\ UNCHANGED <<pureVars, wscVars, inbound, outbound, nsent, loopVars, callVars>>

Next ==
    \/ \E c \in Callers :
          \/ CallConnected(c)
          \/ CallDialFails(c)
          \/ CallDials(c)
          \/ Send(c)
          \/ AwaitAck(c)
          \/ Timeout(c)
    \/ \E k \in Conns :
          \/ LoopRead(k)
          \/ LoopReadError(k)
          \/ LoopPong(k)
          \/ ServerSend(k)
          \/ TransportFail(k)

Spec == InitSpec /\ [][Next]_vars

\* websocket.go 307-328: the timer of time.After(30 * time.Second) fires, and a
\* goroutine blocked in a select with a ready case is scheduled
SpecLive == Spec /\ \A c \in Callers : WF_vars(Timeout(c))

(***************************************************************************)
(* SpecLoop: the read loop of one connection on every bounded frame        *)
(***************************************************************************)
\* how many frames the service sends to the read loop
MaxLoopFrames == 3

\* the frames the service sends: empty, Engine.IO close, Socket.IO disconnect,
\* event and error, a bare message type, a pong, a ping, an acknowledgement
LoopFrames == {"", "1", "41", "42[\"x\"]", "44", "4", "3", PingFrame, AckFrame(1, OkBody)}

\* the client after the Connect of a first call, which had nothing to send and
\* has returned: the transport is up and its read loop is about to read
InitLoop ==
    /\ NoDiffRun
    /\ NoAckRun
    /\ NoInsertRun
    /\ MuIdle
    /\ NoToolRun
    /\ connected = TRUE
    /\ conn = 1
    /\ ackID = 0
    /\ ackChan = <<>>
    /\ up = [k \in Conns |-> k = 1]
    /\ inbound = [k \in Conns |-> <<>>]
    /\ outbound = [k \in Conns |-> IF k = 1 THEN <<ConnectFrame>> ELSE <<>>]
    /\ nsent = 0
    /\ hpc = [k \in Conns |-> IF k = 1 THEN "read" ELSE "none"]
    /\ dropped = <<>>
    /\ pc = [c \in Callers |-> IF c = "c1" THEN "done" ELSE "idle"]
    /\ call = [c \in Callers |->
                 IF c = "c1" THEN ClientCreatePage(ExistingPage, "a", <<>>) ELSE NoCall]
    /\ req = [c \in Callers |-> NoReq]
    /\ myAck = [c \in Callers |-> 0]
    /\ sentOn = [c \in Callers |-> 0]
    /\ got = [c \in Callers |-> ""]
    /\ result = [c \in Callers |-> IF c = "c1" THEN "ok" ELSE ""]
    /\ ncalls = [c \in Callers |-> IF c = "c1" THEN 1 ELSE 0]
    /\ prev = [c \in Callers |-> [result |-> "", ack |-> 0]]

\* the service sends any frame
ServiceSendsAny(k) ==
    /\ hpc[k] # "none"
    /\ up[k]
    /\ nsent < MaxLoopFrames
    /\ \E f \in LoopFrames : inbound' = [inbound EXCEPT ![k] = Append(@, f)]
    /\ nsent' = nsent + 1
    /\ UNCHANGED <<pureVars, wscVars, up, outbound, loopVars, callVars>>

NextLoop ==
    \E k \in Conns :
        \/ LoopRead(k)
        \/ LoopReadError(k)
        \/ LoopPong(k)
        \/ ServiceSendsAny(k)
        \/ TransportFail(k)

SpecLoop == InitLoop /\ [][NextLoop]_vars

(***************************************************************************)
(* SpecEnsure: tool calls on the one Client, each on its own goroutine     *)
(***************************************************************************)
InitEnsure ==
    /\ NoDiffRun
    /\ NoAckRun
    /\ NoInsertRun
    /\ MuIdle
    /\ NoToolRun
    /\ InitClient
    /\ InitCallers

\* what a step of a tool call leaves alone
EnsureFrame ==
    UNCHANGED <<diffVars, ackVars, insVars, muVars, ctxDone, reading, sessVars,
                wscVars, netVars, loopVars, callVars>>

\* websocket.go 479: if c.WebSocketClient == nil, read without a lock
EnsureCheck(t) ==
    /\ epc[t] = "idle"
    /\ IF wsClient = 0
       THEN /\ epc' = [epc EXCEPT ![t] = "create"]
            /\ UNCHANGED seen
       ELSE /\ epc' = [epc EXCEPT ![t] = "ensured"]
            /\ seen' = [seen EXCEPT ![t] = wsClient]
    /\ UNCHANGED <<wsClient, created, used>>
    /\ EnsureFrame

\* websocket.go 480-484: c.WebSocketClient = NewWebSocketClient(...)
EnsureCreate(t) ==
    /\ epc[t] = "create"
    /\ created' = created + 1
    /\ wsClient' = created + 1
    /\ seen' = [seen EXCEPT ![t] = created + 1]
    /\ epc' = [epc EXCEPT ![t] = "ensured"]
    /\ UNCHANGED used
    /\ EnsureFrame

\* websocket.go 517, 543, 578, 582: the write operation on c.WebSocketClient;
\* the field is read without a lock, so the goroutine gets the value stored
\* last or the one it found or stored itself
WriteOperation(t) ==
    /\ epc[t] = "ensured"
    /\ \E w \in {wsClient, seen[t]} : used' = [used EXCEPT ![t] = w]
    /\ epc' = [epc EXCEPT ![t] = "used"]
    /\ UNCHANGED <<wsClient, created, seen>>
    /\ EnsureFrame

NextEnsure ==
    \E t \in ToolCalls :
        \/ EnsureCheck(t)
        \/ EnsureCreate(t)
        \/ WriteOperation(t)

SpecEnsure == InitEnsure /\ [][NextEnsure]_vars

(***************************************************************************)
(* SpecCtx: one commit call in its wait, and the context of its request    *)
(***************************************************************************)
\* the client after a first call has dialed, built the commit for the page at
\* its later version, and written it: the call is in its wait
InitCtx ==
    LET in == ClientCreatePage(LaterPage, "b", <<"a">>)
        draws == [i \in 1..CallMints(in) |-> CHOOSE d \in CallDraws : TRUE]
        request == callRequest(in, callChanges(in, draws))
    IN  /\ NoDiffRun
        /\ NoAckRun
        /\ NoInsertRun
        /\ MuIdle
        /\ NoToolRun
        /\ connected = TRUE
        /\ conn = 1
        /\ ackID = 1
        /\ ackChan = <<>>
        /\ up = [k \in Conns |-> k = 1]
        /\ inbound = [k \in Conns |-> <<>>]
        /\ outbound = [k \in Conns |->
                         IF k = 1 THEN <<ConnectFrame, CommitFrame(1, request)>>
                         ELSE <<>>]
        /\ nsent = 0
        /\ hpc = [k \in Conns |-> IF k = 1 THEN "read" ELSE "none"]
        /\ dropped = <<>>
        /\ pc = [c \in Callers |-> IF c = "c1" THEN "wait" ELSE "idle"]
        /\ call = [c \in Callers |-> IF c = "c1" THEN in ELSE NoCall]
        /\ req = [c \in Callers |-> IF c = "c1" THEN request ELSE NoReq]
        /\ myAck = [c \in Callers |-> IF c = "c1" THEN 1 ELSE 0]
        /\ sentOn = [c \in Callers |-> IF c = "c1" THEN 1 ELSE 0]
        /\ got = [c \in Callers |-> ""]
        /\ result = [c \in Callers |-> ""]
        /\ ncalls = [c \in Callers |-> IF c = "c1" THEN 1 ELSE 0]
        /\ prev = [c \in Callers |-> [result |-> "", ack |-> 0]]

\* transport.go 77: the request's context is cancelled (the HTTP client has
\* gone or a deadline has passed) while the call waits
CtxCancel(c) ==
    /\ pc[c] = "wait"
    /\ c \notin ctxDone
    /\ ctxDone' = ctxDone \cup {c}
    /\ UNCHANGED <<diffVars, ackVars, insVars, muVars,
                   wsClient, created, epc, seen, used, reading, sessVars,
                   wscVars, netVars, loopVars, callVars>>

NextCtx ==
    \/ \E c \in Callers :
          \/ CtxCancel(c)
          \/ AwaitAck(c)
          \/ Timeout(c)
    \/ \E k \in Conns :
          \/ LoopRead(k)
          \/ LoopReadError(k)
          \/ LoopPong(k)
          \/ ServerSend(k)
          \/ TransportFail(k)

SpecCtx == InitCtx /\ [][NextCtx]_vars

(***************************************************************************)
(* SpecClose: Connect, Close and the read loops, step by step              *)
(***************************************************************************)
InitClose ==
    /\ NoDiffRun
    /\ NoAckRun
    /\ NoInsertRun
    /\ MuIdle
    /\ NoToolRun
    /\ InitClient
    /\ InitCallers

\* what the steps of SpecClose leave alone besides the client and the loops
CloseFrame ==
    UNCHANGED <<diffVars, ackVars, insVars, muVars,
                wsClient, created, epc, seen, used, ctxDone, sessVars, callVars>>

\* websocket.go 71-116: Connect on a client that is not connected, the dial
\* succeeding; the read loop is started when the handshake succeeds
Connect ==
    /\ ~(connected /\ conn # 0)
    /\ conn < MaxCalls
    /\ \E hs \in HandshakeOutcomes :
          LET k == conn + 1
          IN  /\ conn' = k
              /\ ackID' = 0
              /\ outbound' = [outbound EXCEPT
                                ![k] = IF hs.wrote THEN <<ConnectFrame>> ELSE <<>>]
              /\ IF hs.err
                 THEN /\ connected' = FALSE
                      /\ up' = [up EXCEPT ![k] = FALSE]
                      /\ UNCHANGED hpc
                 ELSE /\ connected' = TRUE
                      /\ up' = [up EXCEPT ![k] = TRUE]
                      /\ hpc' = [hpc EXCEPT ![k] = "cond"]
    /\ UNCHANGED <<ackChan, inbound, nsent, dropped, reading>>
    /\ CloseFrame

\* websocket.go 465-475: Close on a client that has a transport
Close ==
    /\ conn # 0
    /\ connected' = FALSE
    /\ up' = [up EXCEPT ![conn] = FALSE]
    /\ UNCHANGED <<conn, ackID, ackChan, inbound, outbound, nsent, loopVars, reading>>
    /\ CloseFrame

\* websocket.go 153: for wsc.connected
HandlerCondition(k) ==
    /\ hpc[k] = "cond"
    /\ hpc' = [hpc EXCEPT ![k] = IF connected THEN "read" ELSE "done"]
    /\ UNCHANGED <<wscVars, netVars, dropped, reading>>
    /\ CloseFrame

\* websocket.go 154: wsc.conn.ReadMessage() is called on the transport the
\* field names at that moment
HandlerBeginRead(k) ==
    /\ hpc[k] = "read"
    /\ reading[k] = 0
    /\ reading' = [reading EXCEPT ![k] = conn]
    /\ UNCHANGED <<wscVars, netVars, loopVars>>
    /\ CloseFrame

\* websocket.go 154-178: ReadMessage returns a frame; a ping is answered on
\* the transport wsc.conn names now
HandlerReadReturns(k) ==
    /\ hpc[k] = "read"
    /\ reading[k] # 0
    /\ inbound[reading[k]] # <<>>
    /\ LET message == Head(inbound[reading[k]])
           isPing == Len(message) >= 1 /\ Byte(message, 0) = "2"
           isAck == /\ ~isPing
                    /\ Len(message) >= 2
                    /\ Byte(message, 0) = "4" /\ Byte(message, 1) = "3"
       IN  /\ inbound' = [inbound EXCEPT ![reading[k]] = Tail(@)]
           /\ outbound' = [outbound EXCEPT
                             ![conn] = IF isPing /\ up[conn]
                                       THEN Append(@, PongFrame) ELSE @]
           /\ IF isAck /\ Len(ackChan) < AckChanCap
              THEN ackChan' = Append(ackChan, message)
              ELSE ackChan' = ackChan
           /\ IF isAck /\ ~(Len(ackChan) < AckChanCap)
              THEN dropped' = Append(dropped, [conn |-> reading[k], frame |-> message])
              ELSE dropped' = dropped
    /\ hpc' = [hpc EXCEPT ![k] = "cond"]
    /\ reading' = [reading EXCEPT ![k] = 0]
    /\ UNCHANGED <<connected, conn, ackID, up, nsent>>
    /\ CloseFrame

\* websocket.go 155-158: ReadMessage fails on a transport that is closed or
\* broken; the loop clears wsc.connected and returns
HandlerReadFails(k) ==
    /\ hpc[k] = "read"
    /\ reading[k] # 0
    /\ inbound[reading[k]] = <<>>
    /\ ~up[reading[k]]
    /\ connected' = FALSE
    /\ hpc' = [hpc EXCEPT ![k] = "done"]
    /\ reading' = [reading EXCEPT ![k] = 0]
    /\ UNCHANGED <<conn, ackID, ackChan, netVars, dropped>>
    /\ CloseFrame

NextClose ==
    \/ Connect
    \/ Close
    \/ \E k \in Conns :
          \/ HandlerCondition(k)
          \/ HandlerBeginRead(k)
          \/ HandlerReadReturns(k)
          \/ HandlerReadFails(k)
          \/ ServiceSendsAny(k)
          \/ TransportFail(k)

SpecClose == InitClose /\ [][NextClose]_vars

(***************************************************************************)
(* SpecSession: the SessionManager under concurrent requests and cleanup   *)
(***************************************************************************)
InitSession ==
    /\ NoDiffRun
    /\ NoAckRun
    /\ NoInsertRun
    /\ MuIdle
    /\ NoToolRun
    /\ InitClient
    /\ InitCallers

\* what the steps of SpecSession leave alone besides the session state
SessionFrame ==
    UNCHANGED <<diffVars, ackVars, insVars, muVars,
                wsClient, created, epc, seen, used, ctxDone, reading,
                wscVars, netVars, loopVars, callVars>>

\* the response a handler writes: the status, the Mcp-Session-Id header, the
\* method the message handler was invoked with ("" when it was not invoked)
\* and whether its JSON-RPC response carries an error
Respond(r, status, header, handled, err) ==
    /\ rresp' = [rresp EXCEPT ![r] = [status |-> status, header |-> header,
                                      handled |-> handled, err |-> err]]
    /\ rpc' = [rpc EXCEPT ![r] = "done"]

\* a POST that serves a session id the table does not hold
PostBeginUnknownSessionServed(r) ==
    /\ rpc[r] \in {"idle", "done"}
    /\ nreq < MaxRequests
    /\ nreq' = nreq + 1
    /\ \E originOK \in BOOLEAN, sid \in 0..MaxSessions :
          /\ rreq' = [rreq EXCEPT ![r] = [n |-> nreq + 1, kind |-> "POST",
                                          sid |-> sid, origin |-> originOK]]
          /\ IF ~originOK THEN Respond(r, 403, 0, "", FALSE)
             ELSE /\ rpc' = [rpc EXCEPT ![r] = IF sid # 0 THEN "store" ELSE "handle"]
                  /\ rresp' = [rresp EXCEPT ![r] = NoResponse]
    /\ UNCHANGED <<inTable, lastAccess, nextId, clock, cpc, cnow, cseen, cexp>>
    /\ SessionFrame

\* transport.go 28-52 and session.go 47-50: a POST arrives; the origin check,
\* the Mcp-Session-Id header, and the Load of Get
PostBegin(r) ==
    /\ rpc[r] \in {"idle", "done"}
    /\ nreq < MaxRequests
    /\ nreq' = nreq + 1
    /\ \E originOK \in BOOLEAN, sid \in 0..MaxSessions :
          /\ rreq' = [rreq EXCEPT ![r] = [n |-> nreq + 1, kind |-> "POST",
                                          sid |-> sid, origin |-> originOK]]
          /\ IF ~originOK THEN Respond(r, 403, 0, "", FALSE)
             ELSE IF sid # 0 /\ sid \notin inTable THEN Respond(r, 401, 0, "", FALSE)
             ELSE /\ rpc' = [rpc EXCEPT ![r] = IF sid # 0 THEN "store" ELSE "handle"]
                  /\ rresp' = [rresp EXCEPT ![r] = NoResponse]
    /\ UNCHANGED <<inTable, lastAccess, nextId, clock, cpc, cnow, cseen, cexp>>
    /\ SessionFrame

\* session.go 52-58: Get found the session: it sets LastAccessAt and stores
\* the session under its id again
PostGetStore(r) ==
    /\ rpc[r] = "store"
    /\ lastAccess' = [lastAccess EXCEPT ![rreq[r].sid] = clock]
    /\ inTable' = inTable \cup {rreq[r].sid}
    /\ rpc' = [rpc EXCEPT ![r] = "handle"]
    /\ UNCHANGED <<nextId, clock, nreq, rreq, rresp, cpc, cnow, cseen, cexp>>
    /\ SessionFrame

\* transport.go 54-93: the body is read and parsed, the message handler runs,
\* and a successful initialize creates a session (session.go 34-44)
PostHandle(r) ==
    /\ rpc[r] = "handle"
    /\ \/ \* 55-59: the body cannot be read
          /\ Respond(r, 400, 0, "", FALSE)
          /\ UNCHANGED <<inTable, lastAccess, nextId>>
       \/ \* 63-74: the body is no JSON-RPC request: a parse error is sent
          /\ Respond(r, 200, 0, "", TRUE)
          /\ UNCHANGED <<inTable, lastAccess, nextId>>
       \/ \* 77, 88-89: tools/call runs a tool, with or without an error
          /\ \E err \in BOOLEAN : Respond(r, 200, 0, "tools/call", err)
          /\ UNCHANGED <<inTable, lastAccess, nextId>>
       \/ \* 77, 80: an initialize whose params do not parse
          /\ Respond(r, 200, 0, "initialize", TRUE)
          /\ UNCHANGED <<inTable, lastAccess, nextId>>
       \/ \* 77-85: initialize succeeds: handleInitialize's Get, then Create
          /\ nextId < MaxSessions
          /\ Respond(r, 200, nextId + 1, "initialize", FALSE)
          /\ nextId' = nextId + 1
          /\ inTable' = inTable \cup {nextId + 1}
          /\ lastAccess' = [id \in SessionIds |->
                               IF id = nextId + 1 THEN clock
                               ELSE IF id = rreq[r].sid /\ id \in inTable THEN clock
                               ELSE lastAccess[id]]
    /\ UNCHANGED <<clock, nreq, rreq, cpc, cnow, cseen, cexp>>
    /\ SessionFrame

\* transport.go 136-150 and session.go 61-63: a DELETE arrives
HandleDELETE(r) ==
    /\ rpc[r] \in {"idle", "done"}
    /\ nreq < MaxRequests
    /\ nreq' = nreq + 1
    /\ \E sid \in 0..MaxSessions :
          /\ rreq' = [rreq EXCEPT ![r] = [n |-> nreq + 1, kind |-> "DELETE",
                                          sid |-> sid, origin |-> TRUE]]
          /\ IF sid = 0
             THEN Respond(r, 400, 0, "", FALSE) /\ UNCHANGED inTable
             ELSE Respond(r, 204, 0, "", FALSE) /\ inTable' = inTable \ {sid}
    /\ UNCHANGED <<lastAccess, nextId, clock, cpc, cnow, cseen, cexp>>
    /\ SessionFrame

\* session.go 69-71: a tick of the ticker: now := time.Now(), Range begins
CleanupTick ==
    /\ cpc = "sleep"
    /\ cpc' = "range"
    /\ cnow' = clock
    /\ cseen' = inTable
    /\ UNCHANGED <<inTable, lastAccess, nextId, clock, nreq, rpc, rreq, rresp, cexp>>
    /\ SessionFrame

\* session.go 71-73: the callback reads LastAccessAt of the next session
CleanupVisit ==
    /\ cpc = "range"
    /\ cexp = 0
    /\ \E id \in cseen :
          /\ cseen' = cseen \ {id}
          /\ cexp' = IF cnow - lastAccess[id] > SessionTTL THEN id ELSE 0
    /\ UNCHANGED <<inTable, lastAccess, nextId, clock, nreq, rpc, rreq, rresp,
                   cpc, cnow>>
    /\ SessionFrame

\* session.go 74: sm.sessions.Delete(key) for the session found expired
CleanupDelete ==
    /\ cpc = "range"
    /\ cexp # 0
    /\ inTable' = inTable \ {cexp}
    /\ cexp' = 0
    /\ UNCHANGED <<lastAccess, nextId, clock, nreq, rpc, rreq, rresp,
                   cpc, cnow, cseen>>
    /\ SessionFrame

\* session.go 69: the Range is over, the loop waits for the next tick
CleanupSleep ==
    /\ cpc = "range"
    /\ cexp = 0
    /\ cseen = {}
    /\ cpc' = "sleep"
    /\ UNCHANGED <<inTable, lastAccess, nextId, clock, nreq, rpc, rreq, rresp,
                   cnow, cseen, cexp>>
    /\ SessionFrame

\* time passes
ClockTick ==
    /\ clock < MaxClock
    /\ clock' = clock + 1
    /\ UNCHANGED <<inTable, lastAccess, nextId, nreq, rpc, rreq, rresp,
                   cpc, cnow, cseen, cexp>>
    /\ SessionFrame

NextSession ==
    \/ \E r \in Requests :
          \/ PostBegin(r)
          \/ PostGetStore(r)
          \/ PostHandle(r)
          \/ HandleDELETE(r)
    \/ CleanupTick
    \/ CleanupVisit
    \/ CleanupDelete
    \/ CleanupSleep
    \/ ClockTick

SpecSession == InitSession /\ [][NextSession]_vars

(***************************************************************************)
(* SpecInsert: WebSocketClient.InsertLines on every bounded input          *)
(***************************************************************************)
\* line texts of a page, the empty line included
PageTexts == Texts \cup {""}

\* targets: none, texts a page can hold, and a text no page holds
TargetLines == {"", "a", "b", "zz"}

LineTexts(lines) == [i \in 1..Len(lines) |-> lines[i].text]

\* a loop that inserts after every line that matches the target
RECURSIVE SpliceAfterEveryTarget(_, _, _, _, _)
SpliceAfterEveryTarget(lines, target, lns, i, inserted) ==
    IF i > Len(lines) THEN (IF inserted THEN <<>> ELSE lns)
    ELSE IF lines[i].text = target
    THEN <<lines[i].text>> \o lns
         \o SpliceAfterEveryTarget(lines, target, lns, i + 1, TRUE)
    ELSE <<lines[i].text>>
         \o SpliceAfterEveryTarget(lines, target, lns, i + 1, inserted)

\* websocket.go 347-359: the loop over page.Lines with its inserted flag, and
\* the append after the loop
RECURSIVE SpliceAfterTarget(_, _, _, _, _)
SpliceAfterTarget(lines, target, lns, i, inserted) ==
    IF i > Len(lines) THEN (IF inserted THEN <<>> ELSE lns)
    ELSE IF lines[i].text = target /\ ~inserted
    THEN <<lines[i].text>> \o lns
         \o SpliceAfterTarget(lines, target, lns, i + 1, TRUE)
    ELSE <<lines[i].text>>
         \o SpliceAfterTarget(lines, target, lns, i + 1, inserted)

\* websocket.go 336-359: the newTexts InsertLines hands to PatchPage
InsertLinesTexts(lines, target, lns) ==
    IF target = "" THEN LineTexts(lines) \o lns
    ELSE SpliceAfterTarget(lines, target, lns, 1, FALSE)

InitInsert ==
    /\ \E texts \in SeqsUpTo(PageTexts, MaxLen) : oldLines = PageLines(texts)
    /\ targetLine \in TargetLines
    /\ newLines \in SeqsUpTo(Texts, MaxNewLines)
    /\ userID = Author
    /\ newTexts = <<>>
    /\ changes = <<>>
    /\ diffDone = FALSE
    /\ NoAckRun
    /\ MuIdle
    /\ NoToolRun
    /\ InitClient
    /\ InitCallers

\* websocket.go 335-361 and 262-263: InsertLines builds newTexts and PatchPage
\* computes their diff against the page
RunInsertLines ==
    /\ ~diffDone
    /\ LET texts == InsertLinesTexts(oldLines, targetLine, newLines)
       IN  /\ newTexts' = texts
           /\ \E draws \in [1..NumMints(oldLines, texts) -> CallDraws] :
                 changes' = diffToChanges(oldLines, texts, userID, draws)
    /\ diffDone' = TRUE
    /\ UNCHANGED <<oldLines, userID, ackVars, insVars, muVars, toolVars>>
    /\ UNCHANGED <<wscVars, netVars, loopVars, callVars>>

NextInsert == RunInsertLines

SpecInsert == InitInsert /\ [][NextInsert]_vars

(***************************************************************************)
(* Claims about the acknowledgement wait (checked under Spec)              *)
(***************************************************************************)
\* the correlation id an acknowledgement frame carries, as its decimal text
AckIdText(frame) == SubSeq(frame, 3, SkipDigits(frame, 2))

\* caller c's call has returned on a frame its wait received
CompletedOnFrame(c) == pc[c] = "done" /\ got[c] # ""

OwnAck(c) == AckIdText(got[c]) = DecStr(myAck[c])

SingleCaller == ncalls["c2"] = 0

\* C1: with a single caller, a commit call completes only on an
\* acknowledgement that carries the id the call sent, and while a call waits
\* the wait slot holds no acknowledgement of a request that has finished.
C1_ReplyMatchesRequest ==
    SingleCaller =>
        /\ CompletedOnFrame("c1") => OwnAck("c1")
        /\ pc["c1"] = "wait" =>
              \A i \in 1..Len(ackChan) : AckIdText(ackChan[i]) = DecStr(myAck["c1"])

\* C2: with two callers in flight each call completes on the acknowledgement
\* of its own id, and no acknowledgement is discarded while the request it
\* answers is still waiting, unless the wait slot holds another copy of it.
C2_EachCallerOwnAck ==
    /\ \A c \in Callers : CompletedOnFrame(c) => OwnAck(c)
    /\ \A c \in Callers : pc[c] = "wait" =>
          \A i \in 1..Len(dropped) :
              (dropped[i].conn = sentOn[c]
               /\ AckIdText(dropped[i].frame) = DecStr(myAck[c]))
                  => \E j \in 1..Len(ackChan) : AckIdText(ackChan[j]) = DecStr(myAck[c])

\* the diff of caller c's PatchPage call is empty, and Connect let it through
EmptyDiffCall(c, in) ==
    /\ in.op = "PatchPage"
    /\ \A draws \in [1..NumMints(in.page.lines, in.newTexts) -> CallDraws] :
          diffToChanges(in.page.lines, in.newTexts, in.userID, draws) = <<>>

CommitFrames(k) == SelectSeq(outbound[k], IsCommitFrame)

\* C9: a PatchPage call whose diff is empty writes no commit frame, does not
\* advance the correlation-id counter, awaits nothing, and returns success.
C9_EmptyDiffSendsNothing ==
    [][\A c \in Callers :
          (ncalls'[c] = ncalls[c] + 1 /\ EmptyDiffCall(c, call'[c])
           /\ result'[c] # "connect_error") =>
              /\ pc'[c] = "done"
              /\ result'[c] = "ok"
              /\ myAck'[c] = 0
              /\ sentOn'[c] = 0
              /\ got'[c] = ""
              /\ ackChan' = ackChan
              /\ ackID' = (IF conn' = conn THEN ackID ELSE 0)
              /\ \A k \in Conns : CommitFrames(k)' = CommitFrames(k)]_vars

\* an empty-diff PatchPage has returned success on a connection whose counter
\* an earlier commit had advanced
C9_Witness ==
    \E c \in Callers :
        /\ pc[c] = "done"
        /\ EmptyDiffCall(c, call[c])
        /\ result[c] = "ok"
        /\ connected
        /\ ackID = 1
        /\ Len(CommitFrames(conn)) = 1

\* the correlation id a commit frame carries
FrameId(f) == CHOOSE i \in 0..(MaxCalls + 1) : f.head = "42" \o DecStr(i)

\* C12: on every transport the commit frames carry strictly increasing ids in
\* the order they were written, whoever wrote them; the counter moves up by
\* one, or back to 0 in a step that installs a newly dialed transport.
C12_IdsStrictlyIncreasing ==
    [][/\ \A k \in Conns :
             \A i, j \in 1..Len(CommitFrames(k)') :
                 i < j => FrameId(CommitFrames(k)'[i]) < FrameId(CommitFrames(k)'[j])
       /\ ackID' # ackID =>
             \/ ackID' = ackID + 1
             \/ ackID' = 0 /\ conn' = conn + 1]_vars

\* two callers have commits in flight on the same transport
C12_Witness ==
    /\ pc["c1"] = "wait" /\ pc["c2"] = "wait"
    /\ sentOn["c1"] = sentOn["c2"]
    /\ Len(CommitFrames(sentOn["c1"])) = 2
    /\ myAck["c1"] # myAck["c2"]

\* a read that returned a frame beginning with prefix
ReadBegins(rd, prefix) ==
    /\ ~rd.err
    /\ Len(rd.msg) >= Len(prefix)
    /\ SubSeq(rd.msg, 1, Len(prefix)) = prefix

\* C13: the handshake succeeds only after a frame beginning with "0" was
\* read, "40" was written and a frame beginning with "40" was read, in this
\* order; any other frame, or a failed read or write, makes it fail.  A
\* Connect whose handshake failed returns its error, leaves the client
\* disconnected and starts no read loop, and no commit frame is ever written
\* on that transport; a connected client has sent "40" first on its transport.
C13_HandshakeOrder ==
    [][/\ \A run \in HandshakeRuns :
             LET hs == handleHandshake(run)
             IN  /\ ~hs.err => /\ ReadBegins(run.open, "0")
                               /\ hs.wrote /\ run.write
                               /\ ReadBegins(run.reply, "40")
                 /\ hs.wrote => ReadBegins(run.open, "0") /\ run.write
                 /\ (\/ ~ReadBegins(run.open, "0")
                     \/ ~run.write
                     \/ ~ReadBegins(run.reply, "40")) => hs.err
       /\ \A c \in Callers :
             (conn' = conn + 1 /\ ncalls'[c] = ncalls[c] + 1) =>
                 IF hpc'[conn'] = "none"
                 THEN /\ pc'[c] = "done" /\ result'[c] = "connect_error"
                      /\ ~connected'
                 ELSE /\ connected'
                      /\ outbound'[conn'] = <<ConnectFrame>>
                      /\ result'[c] # "connect_error"
       /\ \A k \in Conns :
             /\ (k <= conn' /\ hpc'[k] = "none") =>
                    /\ CommitFrames(k)' = <<>>
                    /\ conn' = k => ~connected'
             /\ hpc'[k] # "none" =>
                    Len(outbound'[k]) >= 1 /\ outbound'[k][1] = ConnectFrame
       /\ (connected' /\ conn' # 0) => hpc'[conn'] # "none"]_vars

\* a handshake failed after "40" was written, the next Connect succeeded, and
\* a commit was written on the new transport
C13_Witness ==
    /\ conn = 2
    /\ hpc[1] = "none"
    /\ outbound[1] = <<ConnectFrame>>
    /\ hpc[2] # "none"
    /\ Len(CommitFrames(2)) = 1

\* C14: a call that enters Connect while the client is connected opens no
\* transport, writes no frame, starts no read loop and leaves the counter.
C14_ConnectIdempotent ==
    [][\A c \in Callers :
          (connected /\ conn # 0 /\ ncalls'[c] = ncalls[c] + 1) =>
              /\ conn' = conn
              /\ connected'
              /\ ackID' = ackID
              /\ up' = up
              /\ outbound' = outbound
              /\ hpc' = hpc]_vars

\* a second call went through Connect on a connected client whose counter an
\* earlier commit had advanced
C14_Witness ==
    /\ ncalls["c1"] + ncalls["c2"] = 2
    /\ connected
    /\ conn = 1
    /\ ackID = 1
    /\ \E c \in Callers : pc[c] = "send"

\* the frame the read loop takes in this step, "" when it takes none
FrameRead ==
    IF conn # 0 /\ Len(inbound'[conn]) < Len(inbound[conn])
    THEN Head(inbound[conn]) ELSE ""

\* C15: a read loop that has read a ping hands nothing to the wait slot, reads
\* no further frame before its pong, and its next step writes exactly one "3"
\* frame on the transport, as long as the transport still carries frames.
C15_PingAnsweredByPong ==
    [][\A k \in Conns :
          /\ (hpc[k] = "read" /\ hpc'[k] # hpc[k] /\ FrameRead # ""
               /\ Byte(FrameRead, 0) = "2") =>
                 /\ hpc'[k] = "pong"
                 /\ ackChan' = ackChan
                 /\ dropped' = dropped
          /\ hpc[k] = "pong" =>
                 /\ inbound'[conn] = inbound[conn] \/ Len(inbound'[conn]) > Len(inbound[conn])
                 /\ conn' = conn
                 /\ hpc'[k] # "pong" =>
                        outbound'[conn] = IF up[conn]
                                          THEN Append(outbound[conn], PongFrame)
                                          ELSE outbound[conn]]_vars

\* a ping was answered after a commit had been written on the same transport
C15_Witness ==
    \E k \in Conns :
        /\ hpc[k] = "read"
        /\ Len(outbound[k]) = 3
        /\ IsCommitFrame(outbound[k][2])
        /\ outbound[k][3] = PongFrame

\* C16: a read loop that leaves on a failed read has cleared the liveness
\* flag; a call that enters while the flag is clear either returns Connect's
\* error without writing, or dials a new transport and completes the
\* handshake on it; transports are never gone back to, and every commit frame
\* is written on the current transport, after the "40" of its handshake.
C16_ReadFailureReconnects ==
    [][/\ \A k \in Conns :
             (hpc[k] = "read" /\ hpc'[k] = "done" /\ inbound' = inbound) =>
                 ~connected'
       /\ \A c \in Callers :
             (~connected /\ ncalls'[c] = ncalls[c] + 1) =>
                 \/ /\ pc'[c] = "done" /\ result'[c] = "connect_error"
                    /\ ~connected'
                    /\ \A k \in Conns : CommitFrames(k)' = CommitFrames(k)
                 \/ /\ conn' = conn + 1
                    /\ connected'
                    /\ up'[conn']
                    /\ outbound'[conn'] = <<ConnectFrame>>
                    /\ hpc'[conn'] = "read"
       /\ conn' >= conn
       /\ \A c \in Callers :
             (pc[c] = "send" /\ pc'[c] = "wait") =>
                 /\ sentOn'[c] = conn
                 /\ outbound[conn][1] = ConnectFrame
                 /\ outbound'[conn] = Append(outbound[conn], CommitFrame(myAck'[c], req[c]))
                 /\ \A k \in Conns \ {conn} : outbound'[k] = outbound[k]]_vars

\* the first transport's read failed after a commit on it, and the next call
\* has written its commit on a second transport, after a new handshake
C16_Witness ==
    /\ hpc[1] = "done"
    /\ ~up[1]
    /\ Len(CommitFrames(1)) = 1
    /\ conn = 2
    /\ connected
    /\ Len(outbound[2]) = 2
    /\ outbound[2][1] = ConnectFrame
    /\ IsCommitFrame(outbound[2][2])

\* C17: when the write of a commit frame fails the call returns an error and
\* the client is disconnected from then on, so that the next call dials.
C17_WriteFailureDisconnects ==
    [][\A c \in Callers :
          (pc[c] = "send" /\ pc'[c] = "done" /\ result'[c] = "send_error") =>
              ~connected']_vars

\* the body lines of a Client.CreatePage call as the page is to hold them
BodyLinesGiven(in) == IF in.given = <<"a\nb">> THEN <<"a", "b">> ELSE in.given

\* the commit frames caller c's current call has on the transport it wrote to
OwnCommitFrames(c) ==
    IF sentOn[c] = 0 THEN <<>>
    ELSE SelectSeq(outbound[sentOn[c]],
                   LAMBDA f : f = CommitFrame(myAck[c], req[c]))

\* caller c's current call has written its commit frame
WroteCommit(c) ==
    \/ pc[c] = "wait"
    \/ pc[c] = "done" /\ myAck[c] # 0 /\ result[c] # "send_error"

\* the commit a Client.CreatePage call has built is the one the claim names
CreatePageRequestAsClaimed(c) ==
    LET in == call[c]
        texts == <<in.title>> \o BodyLinesGiven(in)
        data == req[c][2].data
    IN  /\ data.pageId = in.page.id
        /\ IF in.page.commitID # ""
           THEN /\ in.op = "PatchPage"
                /\ data.parentId = JsonString(in.page.commitID)
                /\ \E draws \in [1..NumMints(in.page.lines, texts) -> CallDraws] :
                      data.changes = diffToChanges(in.page.lines, texts, in.userID, draws)
           ELSE /\ in.op = "CreatePage"
                /\ data.parentId = JsonNull
                /\ Len(data.changes) = 2
                /\ data.changes[1] = [title |-> in.title]
                /\ [i \in 1..Len(data.changes[2].lines) |->
                       data.changes[2].lines[i].text] = texts

\* C20 as stated: a Client.CreatePage call that returns success has sent
\* exactly one commit, the one the claim names.
C20_ExactlyOneCommit ==
    \A c \in Callers :
        (call[c].api = "Client.CreatePage" /\ pc[c] = "done" /\ result[c] = "ok") =>
            /\ Len(OwnCommitFrames(c)) = 1
            /\ CreatePageRequestAsClaimed(c)

\* C20, amended: a Client.CreatePage call writes at most one commit frame:
\* none when Connect or the write fails or, on the PatchPage path, when the
\* diff is empty, and otherwise exactly one; with a non-empty token the
\* commit is PatchPage's diff against title + body lines with that token as
\* parent, with an empty token it is one snapshot of the title line followed
\* by the body lines in order, with parentId null.
C20_AtMostOneCommit ==
    \A c \in Callers :
        call[c].api = "Client.CreatePage" =>
            /\ Len(OwnCommitFrames(c)) = (IF WroteCommit(c) THEN 1 ELSE 0)
            /\ req[c] # NoReq => CreatePageRequestAsClaimed(c)
            /\ (pc[c] = "done" /\ result[c] = "ok" /\ ~WroteCommit(c)) =>
                  /\ call[c].page.commitID # ""
                  /\ [i \in 1..Len(call[c].page.lines) |-> call[c].page.lines[i].text]
                        = <<call[c].title>> \o BodyLinesGiven(call[c])
            /\ (pc[c] \in {"send", "wait"}) => req[c] # NoReq

\* one call on the PatchPage path and one on the snapshot path, whose body
\* came as one string of two lines, both have their commit on the transport
C20_Witness ==
    /\ pc["c1"] = "wait" /\ pc["c2"] = "wait"
    /\ {call["c1"].op, call["c2"].op} = {"PatchPage", "CreatePage"}
    /\ \A c \in Callers : Len(OwnCommitFrames(c)) = 1
    /\ \E c \in Callers : call[c].given = <<"a\nb">>

\* the arguments create_page is called with in the runs
ToolTitles == {"a", "b"}

ToolBodies == {"", "a"}

\* caller c's call is the one create_page makes for a page that exists
CreatePageOnExistingPage(c) ==
    \E page \in {ExistingPage, LaterPage}, title \in ToolTitles, body \in ToolBodies :
        call[c] = CreatePageToolExecute(page, title, body)

\* C21: a create_page call on a page that already exists (the fetched page
\* has a non-empty commit id) returns an error and sends no commit.
C21_ExistingPageIsError ==
    \A c \in Callers :
        CreatePageOnExistingPage(c) =>
            /\ pc[c] \notin {"send", "wait"}
            /\ Len(OwnCommitFrames(c)) = 0
            /\ pc[c] = "done" => result[c] # "ok"

\* the commit data a frame on the transport carries
FrameData(f) == f.body[2].data

\* the frames on the transport caller c wrote to that carry the id of c's call
FramesOfCall(c) ==
    IF sentOn[c] = 0 THEN <<>>
    ELSE SelectSeq(outbound[sentOn[c]],
                   LAMBDA f : IsCommitFrame(f) /\ f.head = "42" \o DecStr(myAck[c]))

\* C22: the commit frame of a PatchPage call carries as parentId the version
\* token of the page fetched for that same call, and every commit frame on
\* every transport has kind "page", cursor null and freeze true.
C22_ParentIsFetchedToken ==
    /\ \A c \in Callers :
          (call[c].op = "PatchPage" /\ WroteCommit(c)) =>
              /\ Len(FramesOfCall(c)) = 1
              /\ FrameData(FramesOfCall(c)[1]).parentId
                    = JsonString(call[c].page.commitID)
              /\ FrameData(FramesOfCall(c)[1]).pageId = call[c].page.id
    /\ \A k \in Conns : \A j \in 1..Len(outbound[k]) :
          IsCommitFrame(outbound[k][j]) =>
              /\ FrameData(outbound[k][j]).kind = "page"
              /\ FrameData(outbound[k][j]).cursor = JsonNull
              /\ FrameData(outbound[k][j]).freeze = TRUE

\* a caller whose first call was handed the page at token "c1" has, in its
\* second call, written a commit for the page fetched at token "c2"
C22_Witness ==
    /\ ncalls["c1"] = 2
    /\ prev["c1"].result = "ok"
    /\ pc["c1"] = "wait"
    /\ call["c1"].op = "PatchPage"
    /\ call["c1"].page.commitID = "c2"
    /\ Len(FramesOfCall("c1")) = 1

\* C23: no call is retried: a step puts at most one commit frame on the
\* transports, only as the send of a call that has not sent yet, and a call
\* that has sent or returned never comes back to its send, whatever its
\* outcome; so one call writes at most one commit frame.
C23_NoRetry ==
    [][/\ \A k \in Conns :
             \/ CommitFrames(k)' = CommitFrames(k)
             \/ /\ Len(CommitFrames(k)') = Len(CommitFrames(k)) + 1
                /\ \A j \in Conns \ {k} : CommitFrames(j)' = CommitFrames(j)
                /\ \E c \in Callers :
                      /\ pc[c] = "send" /\ pc'[c] = "wait"
                      /\ ncalls'[c] = ncalls[c]
                      /\ sentOn'[c] = k
                      /\ \A d \in Callers \ {c} : pc'[d] = pc[d]
       /\ \A c \in Callers :
             (ncalls'[c] = ncalls[c] /\ pc[c] \in {"wait", "done"}) =>
                 /\ pc'[c] \in {"wait", "done"}
                 /\ myAck'[c] = myAck[c]
                 /\ sentOn'[c] = sentOn[c]]_vars

\* a call has timed out and another has returned a Commit error, and the
\* transport carries one commit frame for each
C23_Witness ==
    /\ pc["c1"] = "done" /\ pc["c2"] = "done"
    /\ {result["c1"], result["c2"]} = {"timeout", ackOutcome(AckFrame(1, ErrBody))}
    /\ sentOn["c1"] = 1 /\ sentOn["c2"] = 1
    /\ Len(CommitFrames(1)) = 2

\* C24: a call that has written its commit frame always returns, also when
\* no inbound frame ever arrives and when the read loop has exited (SpecLive).
C24_WaitTerminates ==
    \A c \in Callers : (pc[c] = "wait") ~> (pc[c] = "done")

\* a call has returned by the timer on a transport that carried no inbound
\* frame and whose read loop has exited
C24_Witness ==
    \E c \in Callers :
        /\ pc[c] = "done"
        /\ result[c] = "timeout"
        /\ Len(OwnCommitFrames(c)) = 1
        /\ nsent = 0
        /\ hpc[sentOn[c]] = "done"

\* C29: an acknowledgement that the read loop reads for a call that has
\* written its frame and not yet received anything, and of which the wait
\* slot holds no copy, is put into the wait slot for that caller, not discarded.
C29_EarlyAckNotLost ==
    [][\A c \in Callers :
          (/\ pc[c] = "wait"
           /\ conn = sentOn[c]
           /\ hpc[conn] = "read"
           /\ inbound[conn] # <<>>
           /\ inbound'[conn] = Tail(inbound[conn])
           /\ Len(Head(inbound[conn])) >= 2
           /\ SubSeq(Head(inbound[conn]), 1, 2) = "43"
           /\ AckIdText(Head(inbound[conn])) = DecStr(myAck[c])
           /\ \A j \in 1..Len(ackChan) : AckIdText(ackChan[j]) # DecStr(myAck[c])) =>
              /\ dropped' = dropped
              /\ ackChan' = Append(ackChan, Head(inbound[conn]))]_vars

\* C10: after a call has timed out, the next commit call on the connection
\* gets its own outcome: if it completes on a frame, that frame carries its id.
C10_NextCallOwnOutcome ==
    (SingleCaller /\ prev["c1"].result = "timeout" /\ CompletedOnFrame("c1"))
        => OwnAck("c1")

(***************************************************************************)
(* Claims about the Client's WebSocketClient (checked under SpecEnsure)    *)
(***************************************************************************)
\* C28: at most one WebSocketClient is ever created for the Client, and
\* every write operation runs on that one instance, also when the first
\* write operations of several tool calls run at the same time.
C28_OneWebSocketClient ==
    /\ created <= 1
    /\ \A t, u \in ToolCalls :
          (epc[t] = "used" /\ epc[u] = "used") => used[t] = used[u]

(***************************************************************************)
(* Claims about the request context (checked under SpecCtx)                *)
(***************************************************************************)
\* C30: a wait whose caller's context is cancelled or past its deadline ends
\* at that point: it does not last until the 30-second timer and return by it.
C30_CancelEndsWait ==
    [][\A c \in Callers :
          (c \in ctxDone /\ pc[c] = "wait") =>
              ~(pc'[c] = "done" /\ result'[c] = "timeout")]_vars

(***************************************************************************)
(* Claims about the read loops next to Close (checked under SpecClose)     *)
(***************************************************************************)
\* the read loops whose ReadMessage is pending on the current transport
ReadersOfCurrent == {k \in Conns : hpc[k] = "read" /\ reading[k] = conn}

\* C33: at most one read loop reads from the current transport, a read loop
\* reads only from the transport it was started for, and a read loop that
\* leaves does not clear the liveness flag of a transport established later.
C33_LoopBoundToItsTransport ==
    /\ [](Cardinality(ReadersOfCurrent) <= 1)
    /\ [](\A k \in Conns : reading[k] \in {0, k})
    /\ [][\A k \in Conns :
            (hpc[k] = "read" /\ hpc'[k] = "done" /\ conn > k) =>
                connected' = connected]_vars

(***************************************************************************)
(* Claims about the read loop (checked under SpecLoop)                     *)
(***************************************************************************)
\* the frame begins neither with '2' nor with "43"
IgnoredFrame(f) ==
    /\ ~(Len(f) >= 1 /\ SubSeq(f, 1, 1) = "2")
    /\ ~(Len(f) >= 2 /\ SubSeq(f, 1, 2) = "43")

\* the client is as InitLoop left it: nothing written but the connect frame,
\* nothing handed to the wait slot or discarded, the flag set
LoopUntouched ==
    /\ outbound[1] = <<ConnectFrame>>
    /\ ackChan = <<>>
    /\ dropped = <<>>
    /\ connected

\* C27: the read of a frame that begins neither with '2' nor with "43" writes
\* no frame, hands nothing to the wait slot, discards nothing, leaves the
\* liveness flag and the transport alone, and the loop goes on reading.
C27_OtherFramesIgnored ==
    [][\A k \in Conns :
          (/\ hpc[k] = "read"
           /\ inbound[conn] # <<>>
           /\ inbound'[conn] = Tail(inbound[conn])
           /\ IgnoredFrame(Head(inbound[conn]))) =>
              /\ outbound' = outbound
              /\ ackChan' = ackChan
              /\ dropped' = dropped
              /\ connected' = connected
              /\ conn' = conn
              /\ ackID' = ackID
              /\ up' = up
              /\ hpc'[k] = "read"]_vars

\* the loop has read three frames, none of them a ping or an acknowledgement,
\* and is reading on, the client untouched
C27_Witness ==
    /\ nsent = 3
    /\ inbound[1] = <<>>
    /\ hpc[1] = "read"
    /\ up[1]
    /\ LoopUntouched

\* the frame the read loop is about to read is an acknowledgement
NextIsAck ==
    /\ inbound[conn] # <<>>
    /\ Len(Head(inbound[conn])) >= 2
    /\ SubSeq(Head(inbound[conn]), 1, 2) = "43"

\* C34: the read loop never blocks on the hand-off: it can always take the
\* next frame, the wait slot holds at most one acknowledgement, one that
\* arrives while the slot is full is discarded and the loop reads on, and a
\* ping read while an acknowledgement sits unconsumed is answered by a pong.
C34_HandoffNeverBlocks ==
    /\ [](\A k \in Conns :
            (hpc[k] = "read" /\ inbound[conn] # <<>>) => ENABLED LoopRead(k))
    /\ [](Len(ackChan) <= AckChanCap)
    /\ [][\A k \in Conns :
            /\ (/\ hpc[k] = "read"
                /\ NextIsAck
                /\ inbound'[conn] = Tail(inbound[conn])
                /\ Len(ackChan) = AckChanCap) =>
                   /\ ackChan' = ackChan
                   /\ dropped' = Append(dropped, [conn |-> conn,
                                                  frame |-> Head(inbound[conn])])
                   /\ hpc'[k] = "read"
            /\ (hpc[k] = "pong" /\ hpc'[k] # "pong" /\ ackChan # <<>> /\ up[conn]) =>
                   /\ outbound'[conn] = Append(outbound[conn], PongFrame)
                   /\ ackChan' = ackChan
                   /\ hpc'[k] = "read"]_vars

\* an acknowledgement sits in the wait slot, a second one has been discarded,
\* and the loop has read a ping that it is about to answer
C34_Witness ==
    /\ Len(ackChan) = 1
    /\ Len(dropped) = 1
    /\ hpc[1] = "pong"
    /\ up[1]

(***************************************************************************)
(* Claims about the acknowledgement parse (checked under SpecAck)          *)
(***************************************************************************)
\* the error value the first element of a payload carries, as JSON text;
\* "" when the payload is no array or its first element has no "error" key
FirstElementError(body) ==
    CASE body = ErrBody    -> "\"conflict\""
      [] body = ErrObjBody -> "{\"name\":\"NotFastForwardError\"}"
      [] OTHER             -> ""

\* C11: when the first element of the acknowledgement's array has an "error"
\* key the call returns a Commit error that carries the remote error value;
\* when it has none the call returns success.
C11_ErrorAckSurfaced ==
    ackDone =>
        \A id \in 1..MaxAckId, body \in AllAckBodies :
            ackMsg = AckFrame(id, body) =>
                ackRet = (IF FirstElementError(body) # ""
                          THEN "Commit error: " \o FirstElementError(body)
                          ELSE "ok")

\* the payload is a JSON array whose first element is an object without an
\* "error" key
WellFormedSuccess(body) ==
    LET ackData == Unmarshal(body)
    IN  /\ ~ackData.err
        /\ Len(ackData.elems) > 0
        /\ "error" \notin DOMAIN ackData.elems[1]

\* C35: the call returns success only for an acknowledgement whose payload
\* parses as a JSON array whose first element is an object without an "error"
\* key; a missing, empty or unparseable payload is not reported as success.
C35_SuccessOnlyOnParsedAck ==
    (ackDone /\ ackRet = "ok") =>
        \A id \in 1..MaxAckId, body \in AllAckBodies :
            ackMsg = AckFrame(id, body) => WellFormedSuccess(body)

\* an acknowledgement with a two-digit id and an error object has been parsed
C11_Witness ==
    /\ ackDone
    /\ ackMsg = AckFrame(12, ErrObjBody)
    /\ ackRet = "Commit error: {\"name\":\"NotFastForwardError\"}"

(***************************************************************************)
(* Claims about wsc.mu (checked under SpecMu)                              *)
(***************************************************************************)
\* C18: at most one goroutine is inside a write on the transport (a commit
\* frame, a pong, the handshake's "40") or inside Close, and it holds wsc.mu.
C18_WritesSerialized ==
    /\ Cardinality(writing) <= 1
    /\ \A g \in writing : mu = g

\* the read loop writes its pong while both callers, Connect and Close wait
\* for the mutex
C18_Witness ==
    /\ writing = {"messageHandler"}
    /\ \A g \in Goroutines \ {"messageHandler"} : mpc[g] = "lock"

(***************************************************************************)
(* The remote store's reading of an operation list, as the claims state it *)
(***************************************************************************)
\* the first index of the line named id, 0 when no line has that id
RECURSIVE IndexOfID(_, _, _)
IndexOfID(lines, id, i) ==
    IF i > Len(lines) THEN 0
    ELSE IF lines[i].id = id THEN i
    ELSE IndexOfID(lines, id, i + 1)

\* one operation applied to a line sequence; ok is FALSE when it names no line
ApplyChange(r, op) ==
    LET k == IndexOfID(r.lines, op.ref, 1)
    IN  IF ~r.ok \/ k = 0 THEN [ok |-> FALSE, lines |-> r.lines]
        ELSE CASE op.kind = "_update" ->
                    [ok |-> TRUE,
                     lines |-> [r.lines EXCEPT ![k] = Line(r.lines[k].id, op.text)]]
               [] op.kind = "_delete" ->
                    [ok |-> TRUE,
                     lines |-> SubSeq(r.lines, 1, k - 1)
                               \o SubSeq(r.lines, k + 1, Len(r.lines))]
               [] op.kind = "_insert" ->
                    [ok |-> TRUE,
                     lines |-> SubSeq(r.lines, 1, k) \o <<Line(op.id, op.text)>>
                               \o SubSeq(r.lines, k + 1, Len(r.lines))]

RECURSIVE ApplyChanges(_, _)
\* the operations applied in array order
ApplyChanges(r, ops) ==
    IF ops = <<>> THEN r ELSE ApplyChanges(ApplyChange(r, Head(ops)), Tail(ops))

TextsOf(lines) == [i \in 1..Len(lines) |-> lines[i].text]

OfKind(ops, kind) == SelectSeq(ops, LAMBDA op : op.kind = kind)

DifferingIndices(old, new) ==
    {i \in 1..Min(Len(old), Len(new)) : old[i].text # new[i]}

(***************************************************************************)
(* Claims about diffToChanges (checked under SpecDiff)                     *)
(***************************************************************************)
\* C3: applying the operations of diffToChanges in array order to the old
\* line sequence yields lines whose texts are the new text sequence, and every
\* old line below min(oldLen, newLen) keeps its identifier.
C3_ApplyYieldsNew ==
    diffDone =>
        LET r == ApplyChanges([ok |-> TRUE, lines |-> oldLines], changes)
        IN  /\ r.ok
            /\ TextsOf(r.lines) = newTexts
            /\ \A i \in 1..Min(Len(oldLines), Len(newTexts)) :
                  r.lines[i].id = oldLines[i].id

\* C4: for a new sequence longer than the old one there are exactly
\* newLen - oldLen Inserts, in the order of the extra new lines; the first is
\* anchored at the last old line's id (the empty id when old is empty) and
\* each later one at the id minted for the Insert before it.
C4_InsertChain ==
    (diffDone /\ Len(newTexts) > Len(oldLines)) =>
        LET ins == OfKind(changes, "_insert")
            oldLen == Len(oldLines)
        IN  /\ Len(ins) = Len(newTexts) - oldLen
            /\ \A k \in 1..Len(ins) :
                  /\ ins[k].text = newTexts[oldLen + k]
                  /\ ins[k].ref = IF k > 1 THEN ins[k - 1].id
                                  ELSE IF oldLen > 0 THEN oldLines[oldLen].id
                                  ELSE ""

C4_Witness ==
    /\ diffDone
    /\ Len(oldLines) > 0
    /\ Len(newTexts) >= Len(oldLines) + 2
    /\ Len(OfKind(changes, "_insert")) >= 2

\* C5: every Insert's anchor is the id of an old line that the same list
\* does not delete, or the id of a line inserted earlier in the same list.
C5_AnchorResolves ==
    diffDone =>
        \A k \in 1..Len(changes) :
            changes[k].kind = "_insert" =>
                \/ \E i \in 1..Len(oldLines) :
                      /\ oldLines[i].id = changes[k].ref
                      /\ \A j \in 1..Len(changes) :
                            changes[j].kind = "_delete" => changes[j].ref # oldLines[i].id
                \/ \E j \in 1..(k - 1) :
                      changes[j].kind = "_insert" /\ changes[j].id = changes[k].ref

\* C6: for equal lengths the list holds only Updates: one Update(old[i].id,
\* new[i]) per differing index i, none for equal indices, ascending in i.
C6_EqualLengthUpdates ==
    (diffDone /\ Len(oldLines) = Len(newTexts)) =>
        LET D == DifferingIndices(oldLines, newTexts)
            idx(k) == IndexOfID(oldLines, changes[k].ref, 1)
        IN  /\ Len(changes) = Cardinality(D)
            /\ \A k \in 1..Len(changes) :
                  /\ changes[k].kind = "_update"
                  /\ idx(k) \in D
                  /\ changes[k].text = newTexts[idx(k)]
                  /\ k > 1 => idx(k - 1) < idx(k)

C6_Witness ==
    /\ diffDone
    /\ Len(oldLines) = Len(newTexts)
    /\ Cardinality(DifferingIndices(oldLines, newTexts)) >= 2
    /\ Cardinality(DifferingIndices(oldLines, newTexts)) < Len(oldLines)
    /\ Len(changes) >= 2

\* C7: for an old sequence longer than the new one there are exactly
\* oldLen - newLen Deletes, of old[oldLen] down to old[newLen + 1] in that
\* order, and no Insert.
C7_DeletesDescending ==
    (diffDone /\ Len(oldLines) > Len(newTexts)) =>
        LET dels == OfKind(changes, "_delete")
            oldLen == Len(oldLines)
        IN  /\ Len(dels) = oldLen - Len(newTexts)
            /\ \A k \in 1..Len(dels) : dels[k].ref = oldLines[oldLen - k + 1].id
            /\ OfKind(changes, "_insert") = <<>>

C7_Witness ==
    /\ diffDone
    /\ Len(oldLines) >= Len(newTexts) + 2
    /\ Len(OfKind(changes, "_delete")) >= 2

\* C8: when the new texts equal the old lines' texts index by index, the
\* operation list is empty.
C8_Idempotent ==
    (diffDone /\ TextsOf(oldLines) = newTexts) => changes = <<>>

C8_Witness ==
    /\ diffDone
    /\ Len(oldLines) >= 2
    /\ TextsOf(oldLines) = newTexts
    /\ changes = <<>>

\* C32: in every operation list of diffToChanges all Updates precede all
\* Deletes and all Inserts, Deletes and Inserts never occur together, no
\* line id is the target of more than one Update or Delete, and the list
\* length is the number of differing indices below min(oldLen, newLen) plus
\* |oldLen - newLen|.
C32_ListShape ==
    diffDone =>
        LET oldLen == Len(oldLines)
            newLen == Len(newTexts)
            targeted == {k \in 1..Len(changes) :
                            changes[k].kind \in {"_update", "_delete"}}
        IN  /\ \A j, k \in 1..Len(changes) :
                  (changes[j].kind = "_update" /\ changes[k].kind # "_update") => j < k
            /\ OfKind(changes, "_delete") = <<>> \/ OfKind(changes, "_insert") = <<>>
            /\ \A j, k \in targeted : changes[j].ref = changes[k].ref => j = k
            /\ Len(changes) = Cardinality(DifferingIndices(oldLines, newTexts))
                  + (IF oldLen > newLen THEN oldLen - newLen ELSE newLen - oldLen)

\* a list with one Update followed by two Deletes
C32_Witness ==
    /\ diffDone
    /\ Len(oldLines) = 3
    /\ Len(newTexts) = 1
    /\ Len(OfKind(changes, "_update")) = 1
    /\ Len(OfKind(changes, "_delete")) = 2

\* the ids diffToChanges minted, in the order of their Inserts
MintedIds == [i \in 1..Len(OfKind(changes, "_insert")) |-> OfKind(changes, "_insert")[i].id]

\* C25: every id createLineId mints for the Inserts has exactly 26 characters
\* (8 + 6 + 4 + 8), whatever the length of the author's identifier.
C25_IdHas26Characters ==
    diffDone => \A i \in 1..Len(MintedIds) : Len(MintedIds[i]) = 26

\* the clock second an id was minted in, as the id carries it
IdSecond(id) == SubSeq(id, 1, 8)

\* C26: the ids minted for the Inserts of one commit within the same clock
\* second are pairwise distinct.
C26_SameSecondIdsDistinct ==
    diffDone =>
        \A i, j \in 1..Len(MintedIds) :
            (i # j /\ IdSecond(MintedIds[i]) = IdSecond(MintedIds[j]))
                => MintedIds[i] # MintedIds[j]

(***************************************************************************)
(* Claims about InsertLines (checked under SpecInsert)                     *)
(***************************************************************************)
\* the index after which InsertLines is to splice: the first line whose text
\* is the target, the last line when the target is empty or matches no line
SplicePoint(old, target) ==
    LET hits == {i \in 1..Len(old) : old[i] = target}
    IN  IF target = "" \/ hits = {} THEN Len(old)
        ELSE CHOOSE i \in hits : \A j \in hits : i <= j

\* C19: InsertLines hands PatchPage the page's texts in order with the new
\* lines spliced in once, right after the first line whose text equals the
\* target, or at the end when the target is empty or matches no line; the
\* operations are PatchPage's diff of the page against those texts.
C19_InsertLinesSplice ==
    diffDone =>
        LET old == TextsOf(oldLines)
            at == SplicePoint(old, targetLine)
            want == SubSeq(old, 1, at) \o newLines \o SubSeq(old, at + 1, Len(old))
        IN  /\ newTexts = want
            /\ \E draws \in [1..NumMints(oldLines, want) -> CallDraws] :
                  changes = diffToChanges(oldLines, want, userID, draws)

\* two lines were spliced in after the first of two lines that match the
\* target, in front of the page's last line
C19_Witness ==
    /\ diffDone
    /\ Len(newLines) = 2
    /\ targetLine # ""
    /\ Len(oldLines) = 3
    /\ oldLines[1].text = targetLine
    /\ oldLines[2].text = targetLine
    /\ oldLines[3].text # targetLine
    /\ Len(newTexts) = 5

\* the Updates of a splice after index at: one for every later old index
\* whose text differs from the text shifted onto it, in index order
RECURSIVE ShiftedUpdates(_, _, _)
ShiftedUpdates(old, want, i) ==
    IF i > Len(old) THEN <<>>
    ELSE (IF old[i].text # want[i] THEN <<UpdateOp(old[i].id, want[i])>> ELSE <<>>)
         \o ShiftedUpdates(old, want, i + 1)

\* C31: for an InsertLines call that splices n new lines after index p of a
\* page with m >= 1 lines, the operation list holds no Delete, exactly n
\* Inserts chained after the id of the page's last old line and carrying the
\* last n texts, and Updates only at the old indices after p whose shifted
\* text differs, the Updates first.
C31_MiddleInsertIsTailRewrite ==
    (diffDone /\ Len(oldLines) >= 1) =>
        LET old == TextsOf(oldLines)
            m == Len(old)
            n == Len(newLines)
            p == SplicePoint(old, targetLine)
            ups == OfKind(changes, "_update")
            ins == OfKind(changes, "_insert")
        IN  /\ OfKind(changes, "_delete") = <<>>
            /\ Len(ins) = n
            /\ changes = ups \o ins
            /\ ups = ShiftedUpdates(oldLines, newTexts, p + 1)
            /\ \A i \in 1..n :
                  /\ ins[i].text = newTexts[m + i]
                  /\ ins[i].ref = (IF i = 1 THEN oldLines[m].id ELSE ins[i - 1].id)

\* one line was spliced in after the first of three lines: the two old lines
\* behind it are rewritten by Updates and one Insert follows the last old line
C31_Witness ==
    /\ diffDone
    /\ Len(oldLines) = 3
    /\ oldLines[1].text = targetLine
    /\ Len(newLines) = 1
    /\ Len(OfKind(changes, "_update")) = 2
    /\ Len(OfKind(changes, "_insert")) = 1
    /\ OfKind(changes, "_update")[1].ref = oldLines[2].id


(***************************************************************************)
(* Claims checked under SpecSession                                        *)
(***************************************************************************)
\* the sessions Create has made
CreatedSessions == 1..nextId

\* C36: once Delete or the cleanup task has removed a session, the session
\* is never put back into the table, so no later Get finds it, whatever Get
\* calls for the same id run concurrently with the removal
C36_RemovedStaysRemoved ==
    [][\A id \in CreatedSessions : id \notin inTable => id \notin inTable']_vars


\* request r arrives in this step as a POST whose Mcp-Session-Id header names
\* a session the table does not hold
PostOfUnknownSession(r) ==
    /\ nreq' = nreq + 1
    /\ rreq'[r].n = nreq'
    /\ rreq'[r].kind = "POST"
    /\ rreq'[r].sid # 0
    /\ rreq'[r].sid \notin inTable

\* the step answers request r with this status, without invoking the message
\* handler and without creating a session
RefusedWith(r, status) ==
    /\ rpc'[r] = "done"
    /\ rresp'[r].status = status
    /\ rresp'[r].handled = ""
    /\ rresp'[r].header = 0
    /\ inTable' = inTable
    /\ nextId' = nextId

\* the step ends request r with a successful initialize
InitializeSucceeds(r) ==
    /\ rpc[r] = "handle"
    /\ rpc'[r] = "done"
    /\ rresp'[r].handled = "initialize"
    /\ ~rresp'[r].err

\* the step creates exactly one new session and returns its id in the
\* Mcp-Session-Id header of r's response
CreatesOneSession(r) ==
    /\ inTable' \ inTable = {rresp'[r].header}
    /\ inTable \subseteq inTable'
    /\ rresp'[r].header \notin CreatedSessions
    /\ rresp'[r].status = 200

\* C37 as stated: a POST whose Mcp-Session-Id header names a session that is
\* not in the table is answered 401 and the message handler is not invoked;
\* a successful initialize creates exactly one new session and returns its id
C37_UnknownSessionIs401 ==
    [][\A r \in Requests :
          /\ PostOfUnknownSession(r) => RefusedWith(r, 401)
          /\ InitializeSucceeds(r) => CreatesOneSession(r)]_vars

\* C37, amended: a POST whose Mcp-Session-Id header names a session that is
\* not in the table is answered 403 when its Origin is rejected and 401
\* otherwise, and in both cases the message handler is not invoked and no
\* session is created; a successful initialize creates exactly one new
\* session and returns its id in the Mcp-Session-Id response header
C37_UnknownSessionIsRefused ==
    [][\A r \in Requests :
          /\ PostOfUnknownSession(r) =>
                RefusedWith(r, IF rreq'[r].origin THEN 401 ELSE 403)
          /\ InitializeSucceeds(r) => CreatesOneSession(r)]_vars

\* one request was answered 401 for a session id the table does not hold, and
\* another one was a successful initialize that returned the id of its session
C37_Witness ==
    \E r, q \in Requests :
        /\ rpc[r] = "done" /\ rreq[r].kind = "POST" /\ rreq[r].origin
        /\ rreq[r].sid # 0 /\ rreq[r].sid \notin inTable
        /\ rresp[r].status = 401 /\ rresp[r].handled = ""
        /\ rpc[q] = "done" /\ rresp[q].handled = "initialize" /\ ~rresp[q].err
        /\ rresp[q].header \in inTable


\* the cleanup task removes session id in this step
CleanupRemoves(id) ==
    /\ cexp = id
    /\ cexp' = 0
    /\ id \in inTable
    /\ id \notin inTable'

\* C38: the cleanup task removes a session only when the time since its last
\* access exceeds the TTL, every successful Get having refreshed the time of
\* the last access
C38_RemovedOnlyWhenExpired ==
    [][\A id \in SessionIds :
          CleanupRemoves(id) => clock - lastAccess[id] > SessionTTL]_vars

=============================================================================
